---- MODULE Spec2Model ----
(***************************************************************************)
(* A model of the rusterizer clip-space clipper (rasterizer/clipping.rs)   *)
(* and of the multi-sampled rasterizer (rasterizer/mod.rs, buffers.rs).    *)
(*                                                                         *)
(* f32 values are modelled by exact rationals <<n, d>> with d > 0 and      *)
(* gcd(n, d) = 1, so every statement below is a statement about the code   *)
(* in exact arithmetic (no rounding).                                      *)
(***************************************************************************)
EXTENDS Integers, Sequences, FiniteSets, TLC

\* ------------------------------------------------------------------------
\* Bounds of the model
\* ------------------------------------------------------------------------

\* Clip-space x and y of the input triangles range over -MaxCoord..MaxCoord.
MaxCoord == 2

\* ------------------------------------------------------------------------
\* f32 arithmetic, exact
\* ------------------------------------------------------------------------

Abs(n) == IF n < 0 THEN -n ELSE n

RECURSIVE Gcd(_, _)
Gcd(a, b) == IF b = 0 THEN a ELSE Gcd(b, a % b)

\* The f32 with value n/d (d # 0), in lowest terms with a positive denominator.
Reduce(n, d, g) == <<n \div g, d \div g>>
Q(n, d) ==
    IF d < 0 THEN Reduce(-n, -d, Gcd(Abs(n), Abs(d)))
    ELSE Reduce(n, d, Gcd(Abs(n), Abs(d)))

F(n) == <<n, 1>>
Zero == F(0)
One == F(1)

\* Sums over the least common denominator and products after cross
\* cancellation: the same values, with the smallest intermediate integers.
\* g is the gcd of the two denominators.
AddOver(a, b, g) ==
    Q(a[1] * (b[2] \div g) + b[1] * (a[2] \div g), (a[2] \div g) * b[2])
RAdd(a, b) == AddOver(a, b, Gcd(a[2], b[2]))
RSub(a, b) == RAdd(a, <<-b[1], b[2]>>)
\* g1 = gcd(|a[1]|, b[2]) and g2 = gcd(|b[1]|, a[2]).
MulCancel(a, b, g1, g2) ==
    <<(a[1] \div g1) * (b[1] \div g2), (a[2] \div g2) * (b[2] \div g1)>>
RMul(a, b) ==
    IF a[1] = 0 \/ b[1] = 0 THEN <<0, 1>>
    ELSE MulCancel(a, b, Gcd(Abs(a[1]), b[2]), Gcd(Abs(b[1]), a[2]))
\* 1.0 / x; a zero divisor is kept as the denominator (f32 infinity)
Recip(x) == IF x[1] < 0 THEN <<-x[2], -x[1]>> ELSE <<x[2], x[1]>>
RDiv(a, b) == RMul(a, Recip(b))
RNeg(a) == <<-a[1], a[2]>>
RAbs(a) == <<Abs(a[1]), a[2]>>

\* a < b.  The integer parts decide when they differ, so that a comparison
\* with a very large value (f32::MAX) needs no large product.
RLt(a, b) ==
    IF a[1] \div a[2] # b[1] \div b[2] THEN a[1] \div a[2] < b[1] \div b[2]
    ELSE (a[1] % a[2]) * b[2] < (b[1] % b[2]) * a[2]
RLe(a, b) == ~RLt(b, a)
RGt(a, b) == RLt(b, a)
RGe(a, b) == ~RLt(a, b)

\* |a| < 0.000001 (CULL_DEGENERATE_TRIANGLE_AREA_EPS).  The denominators of
\* the model stay below 2^31, so a numerator above 2147 already decides.
CULL_DEGENERATE_TRIANGLE_AREA_EPS_DEN == 1000000
BelowAreaEps(a) ==
    \/ a[1] = 0
    \/ /\ Abs(a[1]) < 2148
       /\ Abs(a[1]) * CULL_DEGENERATE_TRIANGLE_AREA_EPS_DEN < a[2]

\* ------------------------------------------------------------------------
\* Points and vectors (math/point.rs, math/vector.rs): tuples of f32
\* ------------------------------------------------------------------------

VAdd(p, q) == [k \in DOMAIN p |-> RAdd(p[k], q[k])]
VSub(p, q) == [k \in DOMAIN p |-> RSub(p[k], q[k])]
VScale(s, p) == [k \in DOMAIN p |-> RMul(s, p[k])]
Dot2(a, b) == RAdd(RMul(a[1], b[1]), RMul(a[2], b[2]))
\* Vector<CS, 2>::cross
Cross2(a, b) == RSub(RMul(a[1], b[2]), RMul(b[1], a[2]))
XY(p) == <<p[1], p[2]>>

\* triangle_2x_area: (v1.xy - v0.xy) x (v2.xy - v0.xy)
MutTriangle2xAreaAbs(vertices) ==
    RAbs(Cross2(VSub(XY(vertices[2]), XY(vertices[1])),
                VSub(XY(vertices[3]), XY(vertices[1]))))
triangle_2x_area(vertices) ==
    Cross2(VSub(XY(vertices[2]), XY(vertices[1])),
           VSub(XY(vertices[3]), XY(vertices[1])))

\* ------------------------------------------------------------------------
\* rasterizer/clipping.rs
\* ------------------------------------------------------------------------

\* const CLIP_PLANES, in the order the planes are clipped against
CLIP_PLANES == <<"LEFT", "RIGHT", "BOTTOM", "TOP", "NEAR", "FAR">>

\* fn distance_measure: the boundary coordinate of p for a plane
distance_measure(plane, p) ==
    CASE plane = "LEFT" -> RAdd(p[4], p[1])
      [] plane = "RIGHT" -> RSub(p[4], p[1])
      [] plane = "BOTTOM" -> RAdd(p[4], p[2])
      [] plane = "TOP" -> RSub(p[4], p[2])
      [] plane = "NEAR" -> RAdd(p[4], p[3])
      [] plane = "FAR" -> RSub(p[4], p[3])

\* fn compute_intersection: alpha = d0 / (d0 - d1), (1 - alpha) * p0 + alpha * p1
Interpolated(p0, p1, alpha) ==
    [point |-> VAdd(VScale(RSub(One, alpha), p0), VScale(alpha, p1)),
     alpha |-> alpha]
compute_intersection(p0, p0_distance_measure, p1, p1_distance_measure) ==
    Interpolated(p0, p1, RDiv(p0_distance_measure,
                              RSub(p0_distance_measure, p1_distance_measure)))

\* The classification of one endpoint in the match of the plane loop:
\* `distance_measure > 0.0`.
InsidePlane(d) == RGt(d, Zero)

\* What the edge loop carries into the next iteration as
\* prev_distance_measure.  The (false, false) arm leaves with `continue`,
\* which skips the assignment at the end of the loop body.
NextPrevDistanceMeasure(prev_in, cur_in, prev_dm, cur_dm) ==
    IF ~prev_in /\ ~cur_in THEN prev_dm ELSE cur_dm

\* The intersection x the loop body computes for the edge prev_vert-cur_vert,
\* its interpolated attribute, and what it was computed from.
Intersection(plane, prev_vert, prev_attr, cur_vert, cur_attr, x, after_skip) ==
    [plane |-> plane, prev_vert |-> prev_vert, cur_vert |-> cur_vert,
     prev_attr |-> prev_attr, cur_attr |-> cur_attr, after_skip |-> after_skip,
     point |-> x.point, alpha |-> x.alpha,
     attr |-> RAdd(RMul(RSub(cur_attr, prev_attr), x.alpha), prev_attr)]

\* The match of the loop body: what the edge appends to out_vertices and
\* out_attrs.  rec is the intersection of the edge with the plane.
MutClipEdgeNoEntry(acc, cur_vert, cur_attr, prev_in, cur_in, rec) ==
    CASE cur_in ->
           [acc EXCEPT !.vertices = Append(@, cur_vert),
                       !.attrs = Append(@, cur_attr),
                       !.skipped = FALSE]
      [] prev_in /\ ~cur_in ->
           [acc EXCEPT !.vertices = Append(@, rec.point),
                       !.attrs = Append(@, rec.attr),
                       !.emitted = Append(@, rec),
                       !.skipped = FALSE]
      [] ~prev_in /\ ~cur_in ->
           [acc EXCEPT !.skipped = TRUE]
ClipEdge(acc, cur_vert, cur_attr, prev_in, cur_in, rec) ==
    CASE prev_in /\ cur_in ->
           [acc EXCEPT !.vertices = Append(@, cur_vert),
                       !.attrs = Append(@, cur_attr),
                       !.skipped = FALSE]
      [] prev_in /\ ~cur_in ->
           [acc EXCEPT !.vertices = Append(@, rec.point),
                       !.attrs = Append(@, rec.attr),
                       !.emitted = Append(@, rec),
                       !.skipped = FALSE]
      [] ~prev_in /\ cur_in ->
           [acc EXCEPT !.vertices = Append(Append(@, rec.point), cur_vert),
                       !.attrs = Append(Append(@, rec.attr), cur_attr),
                       !.emitted = Append(@, rec),
                       !.skipped = FALSE]
      [] ~prev_in /\ ~cur_in ->
           [acc EXCEPT !.skipped = TRUE]

\* One more pass of the loop body in acc.edges: the plane, the two end
\* points of the edge, and the vertices the pass pushed to out_vertices.
EdgePushed(plane, prev_vert, cur_vert, acc, after) ==
    [after EXCEPT !.edges =
        Append(@, [plane |-> plane, prev_vert |-> prev_vert, cur_vert |-> cur_vert,
                   pushed |-> SubSeq(after.vertices, Len(acc.vertices) + 1,
                                     Len(after.vertices))])]

\* `for (i, (cur_vert, cur_attr)) in ...enumerate()` for the edges i..n of
\* one plane pass.  acc holds out_vertices, out_attrs, a record of every
\* intersection computed and a record of what every edge pushed; prev_i is
\* the index of the edge's first end point,
\* prev_dm and cur_dm are prev_distance_measure and cur_distance_measure.
RECURSIVE ClipEdges(_, _, _, _, _, _)
ClipEdgeAt(plane, in_vertices, in_attrs, i, prev_i, prev_dm, cur_dm, acc) ==
    ClipEdges(plane, in_vertices, in_attrs, i + 1,
              NextPrevDistanceMeasure(InsidePlane(prev_dm), InsidePlane(cur_dm),
                                      prev_dm, cur_dm),
              EdgePushed(plane, in_vertices[prev_i], in_vertices[i], acc,
                  ClipEdge(acc, in_vertices[i], in_attrs[i],
                           InsidePlane(prev_dm), InsidePlane(cur_dm),
                           Intersection(plane, in_vertices[prev_i], in_attrs[prev_i],
                                        in_vertices[i], in_attrs[i],
                                        compute_intersection(in_vertices[prev_i], prev_dm,
                                                             in_vertices[i], cur_dm),
                                        acc.skipped))))
ClipEdges(plane, in_vertices, in_attrs, i, prev_distance_measure, acc) ==
    IF i > Len(in_vertices) THEN acc
    ELSE ClipEdgeAt(plane, in_vertices, in_attrs, i,
                    ((i - 1 + Len(in_vertices) - 1) % Len(in_vertices)) + 1,
                    prev_distance_measure,
                    distance_measure(plane, in_vertices[i]), acc)

\* `for plane in CLIP_PLANES` from plane number k on.  st.panicked records
\* `in_vertices.last().unwrap()` on an empty polygon; st.sizes the length of
\* out_vertices after each pass.
AfterPlane(st, acc) ==
    [st EXCEPT !.vertices = acc.vertices,
               !.attrs = acc.attrs,
               !.emitted = acc.emitted,
               !.edges = acc.edges,
               !.sizes = Append(@, Len(acc.vertices))]
RECURSIVE ClipPlanes(_, _)
ClipPlanes(k, st) ==
    IF k > Len(CLIP_PLANES) \/ st.panicked THEN st
    ELSE IF Len(st.vertices) = 0 THEN [st EXCEPT !.panicked = TRUE]
    ELSE ClipPlanes(k + 1,
            AfterPlane(st,
                ClipEdges(CLIP_PLANES[k], st.vertices, st.attrs, 1,
                          distance_measure(CLIP_PLANES[k],
                                           st.vertices[Len(st.vertices)]),
                          [vertices |-> <<>>, attrs |-> <<>>,
                           emitted |-> st.emitted, edges |-> st.edges,
                           skipped |-> FALSE])))

\* The fast checks of try_clip: per axis, all three vertices inside / outside.
MutAxisInsideStrict(v, axis) == RGt(v[axis], RNeg(v[4])) /\ RLt(v[axis], v[4])
AxisInside(v, axis) == RGe(v[axis], RNeg(v[4])) /\ RLe(v[axis], v[4])
AxisOutside(v, axis) == RLt(v[axis], RNeg(v[4])) \/ RGt(v[axis], v[4])

FastInside(vertices) ==
    \A axis \in 1..3 : \A i \in 1..3 : AxisInside(vertices[i], axis)
FastOutside(vertices) ==
    \E axis \in 1..3 : \A i \in 1..3 : AxisOutside(vertices[i], axis)

\* The fan triangulation at the end of try_clip
MutFanStrip(out_vertices, out_attrs) ==
    [i \in 1..(Len(out_vertices) - 2) |->
        [vertices |-> <<out_vertices[i], out_vertices[i + 1], out_vertices[i + 2]>>,
         vertex_attributes |-> <<out_attrs[i], out_attrs[i + 1], out_attrs[i + 2]>>]]
Fan(out_vertices, out_attrs) ==
    [i \in 1..(Len(out_vertices) - 2) |->
        [vertices |-> <<out_vertices[1], out_vertices[i + 1], out_vertices[i + 2]>>,
         vertex_attributes |-> <<out_attrs[1], out_attrs[i + 1], out_attrs[i + 2]>>]]

NoTrace ==
    [sizes |-> <<>>, emitted |-> <<>>, edges |-> <<>>, polygon |-> <<>>,
     polygon_attrs |-> <<>>]

\* The degenerate-area test shared by try_clip and Rasterizer::can_cull
MutDegenerateSigned(vertices) ==
    triangle_2x_area(vertices)[1] < 0 \/ BelowAreaEps(triangle_2x_area(vertices))
Degenerate(vertices) == BelowAreaEps(triangle_2x_area(vertices))

\* pub fn try_clip.  kind is the ClipResult variant, or "Panic" when the call
\* does not return (a failed debug_assert!, unwrap() of None, or the
\* capacity overflow of Vec::with_capacity(len - 2) with len < 2).
Clipped(st) ==
    IF st.panicked \/ Len(st.vertices) < 3
    THEN [kind |-> "Panic", tris |-> <<>>, path |-> "clip",
          trace |-> [sizes |-> st.sizes, emitted |-> st.emitted,
                     edges |-> st.edges, polygon |-> st.vertices,
                     polygon_attrs |-> st.attrs]]
    ELSE [kind |-> "Clipped", tris |-> Fan(st.vertices, st.attrs), path |-> "clip",
          trace |-> [sizes |-> st.sizes, emitted |-> st.emitted,
                     edges |-> st.edges, polygon |-> st.vertices,
                     polygon_attrs |-> st.attrs]]
try_clip(t) ==
    IF Degenerate(t.vertices)
    THEN [kind |-> "Outside", tris |-> <<>>, path |-> "degenerate", trace |-> NoTrace]
    ELSE IF FastOutside(t.vertices)
    THEN [kind |-> "Outside", tris |-> <<>>, path |-> "fast", trace |-> NoTrace]
    ELSE IF FastInside(t.vertices)
    THEN [kind |-> "Inside", tris |-> <<>>, path |-> "fast", trace |-> NoTrace]
    ELSE Clipped(ClipPlanes(1, [vertices |-> t.vertices,
                                attrs |-> t.vertex_attributes,
                                emitted |-> <<>>, edges |-> <<>>, sizes |-> <<>>,
                                panicked |-> FALSE]))

\* Rasterizer::can_cull (rasterizer/mod.rs)
can_cull(vertices) ==
    \/ \A i \in 1..3 : RLe(vertices[i][4], Zero)
    \/ Degenerate(vertices)


\* ------------------------------------------------------------------------
\* Unsigned integers (u8 masks, packed u32 colours)
\* ------------------------------------------------------------------------

RECURSIVE BitAnd(_, _)
BitAnd(a, b) ==
    IF a = 0 \/ b = 0 THEN 0
    ELSE (a % 2) * (b % 2) + 2 * BitAnd(a \div 2, b \div 2)

RECURSIVE BitOr(_, _)
BitOr(a, b) ==
    IF a = 0 THEN b
    ELSE IF b = 0 THEN a
    ELSE (IF a % 2 = 1 \/ b % 2 = 1 THEN 1 ELSE 0) + 2 * BitOr(a \div 2, b \div 2)

Pow2(i) == CASE i = 0 -> 1 [] i = 1 -> 2 [] i = 2 -> 4 [] i = 3 -> 8
             [] i = 4 -> 16 [] i = 5 -> 32 [] i = 6 -> 64 [] i = 7 -> 128

\* u8: `!x` and `x << i` (the bits shifted out are lost)
U8Not(x) == 255 - x
U8Shl(x, i) == (x * Pow2(i)) % 256

\* A u32 is the pair <<high 16 bits, low 16 bits>>.
U32Or(a, b) == <<BitOr(a[1], b[1]), BitOr(a[2], b[2])>>
\* v << 24, v << 16, v << 8 and v as u32 values, for 0 <= v < 2^16
U32Shl24(v) == <<(v % 256) * 256, 0>>
U32Shl16(v) == <<v, 0>>
U32Shl8(v) == <<v \div 256, (v % 256) * 256>>
U32Of(v) == <<0, v>>

\* ------------------------------------------------------------------------
\* rasterizer/buffers.rs
\* ------------------------------------------------------------------------

N_MSAA_SAMPLES == 4
Samples == 0..(N_MSAA_SAMPLES - 1)

\* pub const CLEAR_COLOR: u32 = 0xFF191919
CLEAR_COLOR == <<65305, 6425>>
\* pub const CLEAR_DEPTH: f32 = f32::MAX, held as the largest integer of the
\* model's arithmetic: above every depth a triangle can have.
CLEAR_DEPTH == <<2147483647, 1>>

\* pub const TILE_SIZE: usize = 64
TILE_SIZE == 64

\* BufferTiles::new(width, height).  tiles[k + 1] is the tile of index k and
\* masks[m + 1][k + 1] is masks[m][k]; panicked says that a call has panicked.
TilesAcross(side) == side \div TILE_SIZE + (IF side % TILE_SIZE = 0 THEN 0 ELSE 1)
MinInt(a, b) == IF a < b THEN a ELSE b
Tile(i, j, width, height) ==
    [min_x |-> i * TILE_SIZE, max_x |-> MinInt((i + 1) * TILE_SIZE, width),
     min_y |-> j * TILE_SIZE, max_y |-> MinInt((j + 1) * TILE_SIZE, height)]
BufferTiles_new(width, height) ==
    [tiles |-> [k \in 1..(TilesAcross(width) * TilesAcross(height)) |->
                   Tile((k - 1) % TilesAcross(width), (k - 1) \div TilesAcross(width),
                        width, height)],
     masks |-> [m \in 1..2 |->
                   [k \in 1..(TilesAcross(width) * TilesAcross(height)) |-> FALSE]],
     mask_idx |-> 0,
     n_horizontal |-> TilesAcross(width),
     panicked |-> FALSE]
\* BufferTiles::tile_idx
tile_idx(bt, row, col) == (row \div TILE_SIZE) * bt.n_horizontal + (col \div TILE_SIZE)
\* BufferTiles::mark.  panicked records an index past the end of the mask.
mark(bt, row, col) ==
    IF tile_idx(bt, row, col) + 1 \in DOMAIN bt.masks[bt.mask_idx + 1]
    THEN [bt EXCEPT !.masks[bt.mask_idx + 1][tile_idx(bt, row, col) + 1] = TRUE]
    ELSE [bt EXCEPT !.panicked = TRUE]
\* BufferTiles::next
MutNextKeepsMask(bt) == [bt EXCEPT !.mask_idx = (bt.mask_idx + 1) % 2]
next(bt) ==
    [bt EXCEPT !.mask_idx = (bt.mask_idx + 1) % 2,
               !.masks[((bt.mask_idx + 1) % 2) + 1] = [k \in DOMAIN @ |-> FALSE]]
\* BufferTiles::prev_marked and BufferTiles::marked: the tiles they yield
prev_marked(bt) ==
    {bt.tiles[k] : k \in {k \in DOMAIN bt.tiles : bt.masks[((bt.mask_idx + 1) % 2) + 1][k]}}
marked(bt) ==
    {bt.tiles[k] : k \in {k \in DOMAIN bt.tiles : bt.masks[bt.mask_idx + 1][k]}}

\* Color::to_argb (color.rs): each channel is (c * 255.0) as u32, a cast that
\* truncates and maps negative values to 0.
ChannelByte(c) == IF c[1] < 0 THEN 0 ELSE (c[1] * 255) \div c[2]
to_argb(color) ==
    U32Or(U32Or(U32Shl24(ChannelByte(color[4])), U32Shl16(ChannelByte(color[1]))),
          U32Or(U32Shl8(ChannelByte(color[2])), U32Of(ChannelByte(color[3]))))

\* ColorBuffer::box_filter_color
MutRedOfWithAlpha(c) == c[1]
RedOf(c) == BitAnd(c[1], 255)
GreenOf(c) == BitAnd(c[2], 65280) \div 256
BlueOf(c) == BitAnd(c[2], 255)
box_filter_color(colors) ==
    LET red_sum == RedOf(colors[0]) + RedOf(colors[1]) + RedOf(colors[2]) + RedOf(colors[3])
        green_sum == GreenOf(colors[0]) + GreenOf(colors[1]) + GreenOf(colors[2]) + GreenOf(colors[3])
        blue_sum == BlueOf(colors[0]) + BlueOf(colors[1]) + BlueOf(colors[2]) + BlueOf(colors[3])
    IN  U32Or(U32Or(U32Shl24(255), U32Shl16(red_sum \div N_MSAA_SAMPLES)),
              U32Or(U32Shl8(green_sum \div N_MSAA_SAMPLES),
                    U32Of(blue_sum \div N_MSAA_SAMPLES)))

\* ------------------------------------------------------------------------
\* rasterizer/mod.rs: CoverageMask
\* ------------------------------------------------------------------------

CoverageMask_new == 0
CoverageMask_any(mask) == mask # 0
CoverageMask_all(mask) == mask = 15
CoverageMask_empty(mask) == mask = 0
CoverageMask_get(mask, i) == BitAnd(U8Shl(1, i), mask) # 0
\* self.mask = (self.mask & (!(1 << i))) | (v << i)
MutCoverageMask_set_keep(mask, i, v) ==
    BitOr(mask, U8Shl(IF v THEN 1 ELSE 0, i))
MutCoverageMaskSetNoShift(mask, i, v) ==
    BitOr(BitAnd(mask, U8Not(U8Shl(1, i))), IF v THEN 1 ELSE 0)
CoverageMask_set(mask, i, v) ==
    BitOr(BitAnd(mask, U8Not(U8Shl(1, i))), U8Shl(IF v THEN 1 ELSE 0, i))

\* ------------------------------------------------------------------------
\* rasterizer/mod.rs: EdgeFunctions
\* ------------------------------------------------------------------------

\* Rotated grid super sampling
RGSS_SAMPLE_PATTERN ==
    [i \in Samples |->
        CASE i = 0 -> <<Q(5, 8), Q(1, 8)>>
          [] i = 1 -> <<Q(7, 8), Q(5, 8)>>
          [] i = 2 -> <<Q(3, 8), Q(7, 8)>>
          [] i = 3 -> <<Q(1, 8), Q(3, 8)>>]

\* EdgeFunctions::eval_single
eval_single(ef, x, y) ==
    [k \in 1..3 |-> Dot2(ef.normals[k], VSub(<<x, y>>, ef.points[k]))]

\* The closure of EdgeFunctions::inside for one edge
MutEdgeInsideInclusive(val, normal) == RGe(val, Zero)
EdgeInside(val, normal) ==
    IF RGt(val, Zero) THEN TRUE
    ELSE IF RLt(val, Zero) THEN FALSE
    ELSE IF RGt(normal[1], Zero) THEN TRUE
    ELSE IF RLt(normal[1], Zero) THEN FALSE
    ELSE IF RLt(normal[2], Zero) THEN TRUE
    ELSE FALSE

\* EdgeFunctions::inside
MutInsideEitherSide(normals, eval_edge_funcs) ==
    \/ \A k \in 1..3 : EdgeInside(eval_edge_funcs[k], normals[k])
    \/ \A k \in 1..3 : RLe(eval_edge_funcs[k], Zero)
inside(normals, eval_edge_funcs) ==
    \A k \in 1..3 : EdgeInside(eval_edge_funcs[k], normals[k])

\* EdgeFunctions::eval, samples i..N_MSAA_SAMPLES-1.  e is eval_single at
\* sample i.
EvalSample(ef, i, e) ==
    [ef EXCEPT !.coverage_evaluated[i] = e,
               !.coverage_mask = CoverageMask_set(@, i, inside(ef.normals, e))]
RECURSIVE EvalFrom(_, _, _, _)
EvalFrom(ef, x, y, i) ==
    IF i >= N_MSAA_SAMPLES THEN ef
    ELSE EvalFrom(EvalSample(ef, i,
                      eval_single(ef, RAdd(F(x), RGSS_SAMPLE_PATTERN[i][1]),
                                      RAdd(F(y), RGSS_SAMPLE_PATTERN[i][2]))),
                  x, y, i + 1)
eval(ef, x, y) == EvalFrom(ef, x, y, 0)

\* ------------------------------------------------------------------------
\* rasterizer/mod.rs: RasterizerTriangle
\* ------------------------------------------------------------------------

\* RasterizerTriangle::new
RasterizerTriangle_new(vertices, depths_camera_space, attributes) ==
    LET v0 == VSub(vertices[2], vertices[1])
        v1 == VSub(vertices[3], vertices[2])
        v2 == VSub(vertices[1], vertices[3])
        n0 == <<RNeg(v0[2]), v0[1]>>
        n1 == <<RNeg(v1[2]), v1[1]>>
        n2 == <<RNeg(v2[2]), v2[1]>>
    IN  [edge_functions |->
            [points |-> <<XY(vertices[1]), XY(vertices[2]), XY(vertices[3])>>,
             normals |-> <<n0, n1, n2>>,
             coverage_evaluated |-> [i \in Samples |-> <<Zero, Zero, Zero>>],
             coverage_mask |-> CoverageMask_new],
         depths_camera_space |-> depths_camera_space,
         depths |-> <<vertices[1][3], vertices[2][3], vertices[3][3]>>,
         attributes |-> attributes,
         inv_2x_area |-> Recip(triangle_2x_area(vertices))]

\* clamp_bary: the debug assertion, and the clamped value
BARY_EPS == Q(1, 10000)
clamp_bary_ok(x) == RGe(x, RNeg(BARY_EPS)) /\ RLe(x, RAdd(One, BARY_EPS))
clamp_bary(x) == IF RLt(x, Zero) THEN Zero ELSE IF RGt(x, One) THEN One ELSE x

\* The closure interpolate_depth of RasterizerTriangle::fragment.  raw0 and
\* raw1 are edge_functions[1] * inv_2x_area and edge_functions[2] *
\* inv_2x_area, bary0 and bary1 their clamped values.
DepthBarysOk(raw0, raw1) ==
    /\ clamp_bary_ok(raw0)
    /\ clamp_bary_ok(raw1)
    /\ clamp_bary_ok(RSub(RSub(One, clamp_bary(raw0)), clamp_bary(raw1)))
interpolate_depth_ok(tri, edge_functions) ==
    DepthBarysOk(RMul(edge_functions[2], tri.inv_2x_area),
                 RMul(edge_functions[3], tri.inv_2x_area))
WeightedDepth(tri, bary0, bary1) ==
    RAdd(RAdd(RMul(bary0, tri.depths[1]), RMul(bary1, tri.depths[2])),
         RMul(clamp_bary(RSub(RSub(One, bary0), bary1)), tri.depths[3]))
interpolate_depth(tri, edge_functions) ==
    WeightedDepth(tri, clamp_bary(RMul(edge_functions[2], tri.inv_2x_area)),
                       clamp_bary(RMul(edge_functions[3], tri.inv_2x_area)))

\* RasterizerTriangle::fragment: the depth of every covered sample
fragment(tri) ==
    [sampled_depths |->
        [i \in Samples |->
            IF CoverageMask_get(tri.edge_functions.coverage_mask, i)
            THEN interpolate_depth(tri, tri.edge_functions.coverage_evaluated[i])
            ELSE Zero],
     ok |-> \A i \in Samples :
                CoverageMask_get(tri.edge_functions.coverage_mask, i)
                => interpolate_depth_ok(tri, tri.edge_functions.coverage_evaluated[i])]

\* Fragment::interpolate: the sample position used for the attributes
FirstCovered(cov) == CHOOSE i \in Samples :
    CoverageMask_get(cov, i) /\ \A j \in 0..(i - 1) : ~CoverageMask_get(cov, j)
InterpolationPoint(x, y, cov) ==
    IF ~CoverageMask_all(cov) /\ \E i \in Samples : CoverageMask_get(cov, i)
    THEN <<RAdd(F(x), RGSS_SAMPLE_PATTERN[FirstCovered(cov)][1]),
           RAdd(F(y), RGSS_SAMPLE_PATTERN[FirstCovered(cov)][2])>>
    ELSE <<RAdd(F(x), Q(1, 2)), RAdd(F(y), Q(1, 2))>>

\* Fragment::interpolate: perspective correct barycentrics, before clamping
Barycentrics(f_u, f_v, sum) ==
    [sum |-> sum, raw_u |-> RDiv(f_u, sum), raw_v |-> RDiv(f_v, sum),
     raw_w |-> RSub(RSub(One, clamp_bary(RDiv(f_u, sum))),
                    clamp_bary(RDiv(f_v, sum)))]
MutPerspectiveCorrectTwo(f_u, f_v, f_w) ==
    Barycentrics(f_u, f_v, RAdd(f_u, f_v))
PerspectiveCorrect(f_u, f_v, f_w) ==
    Barycentrics(f_u, f_v, RAdd(RAdd(f_u, f_v), f_w))
MutPerspectiveAtOwnEdge(tri, efs) ==
    PerspectiveCorrect(RDiv(efs[1], tri.depths_camera_space[1]),
                       RDiv(efs[2], tri.depths_camera_space[2]),
                       RDiv(efs[3], tri.depths_camera_space[3]))
PerspectiveAt(tri, efs) ==
    PerspectiveCorrect(RDiv(efs[2], tri.depths_camera_space[1]),
                       RDiv(efs[3], tri.depths_camera_space[2]),
                       RDiv(efs[1], tri.depths_camera_space[3]))
PerspectiveBarys(tri, x, y, cov) ==
    PerspectiveAt(tri, eval_single(tri.edge_functions,
                                   InterpolationPoint(x, y, cov)[1],
                                   InterpolationPoint(x, y, cov)[2]))
\* the assertions of clamp_bary, and a sum that can be divided by
BarycentricsOk(b) ==
    /\ b.sum[1] # 0
    /\ clamp_bary_ok(b.raw_u) /\ clamp_bary_ok(b.raw_v) /\ clamp_bary_ok(b.raw_w)
interpolate_ok(tri, x, y, cov) ==
    BarycentricsOk(PerspectiveBarys(tri, x, y, cov))
Weighted(attributes, b) ==
    VAdd(VAdd(VScale(clamp_bary(b.raw_u), attributes[1]),
              VScale(clamp_bary(b.raw_v), attributes[2])),
         VScale(clamp_bary(b.raw_w), attributes[3]))
interpolate(tri, x, y, cov) ==
    Weighted(tri.attributes, PerspectiveBarys(tri, x, y, cov))

\* The fragment shader (render::FragmentShader): a pure function of its
\* arguments; here the shader that returns the interpolated vertex colour.
fragment_shader(fc, attr) == attr

\* ------------------------------------------------------------------------
\* rasterizer/bounding_box.rs
\* ------------------------------------------------------------------------

Floor(r) == r[1] \div r[2]
MutCeilIsFloorPlusOne(r) == (r[1] \div r[2]) + 1
Ceil(r) == -((-r[1]) \div r[2])
\* `as usize`: negative values become 0
AsUsize(n) == IF n < 0 THEN 0 ELSE n
RMin(a, b) == IF RLt(b, a) THEN b ELSE a
RMax(a, b) == IF RGt(b, a) THEN b ELSE a

MinOf(vertices, k) == RMin(RMin(vertices[1][k], vertices[2][k]), vertices[3][k])
MaxOf(vertices, k) == RMax(RMax(vertices[1][k], vertices[2][k]), vertices[3][k])
\* the debug assertions on the box
Asserted(b) == [box |-> b, ok |-> b.min_x < b.max_x /\ b.min_y < b.max_y]
PixelBoundingBox_from(vertices) ==
    Asserted([min_x |-> AsUsize(Floor(MinOf(vertices, 1))),
              max_x |-> AsUsize(Ceil(MaxOf(vertices, 1))),
              min_y |-> AsUsize(Floor(MinOf(vertices, 2))),
              max_y |-> AsUsize(Ceil(MaxOf(vertices, 2)))])

\* ------------------------------------------------------------------------
\* rasterizer/mod.rs: Rasterizer
\* ------------------------------------------------------------------------

\* Rasterizer::new(width, height)
WIDTH == 2
HEIGHT == 1
Pixels == 0..(WIDTH * HEIGHT - 1)

ClearColorBuffer == [idx \in Pixels |-> [i \in Samples |-> CLEAR_COLOR]]
ClearDepthBuffer == [idx \in Pixels |-> [i \in Samples |-> CLEAR_DEPTH]]
ColorBuffer_new ==
    [buffer |-> ClearColorBuffer, resolve_buffer |-> [idx \in Pixels |-> CLEAR_COLOR]]
DepthBuffer_new == [buffer |-> ClearDepthBuffer]

\* Rasterizer::perspective_divide
perspective_divide(t) ==
    [vertices |->
        [k \in 1..3 |->
            <<RDiv(t.vertices[k][1], t.vertices[k][4]),
              RDiv(t.vertices[k][2], t.vertices[k][4]),
              RDiv(t.vertices[k][3], t.vertices[k][4]),
              t.vertices[k][4]>>],
     vertex_attributes |-> t.vertex_attributes]

\* Rasterizer::viewport_transform: the closure new_vert and its assertions
InUnitRange(c) == RLe(c, One) /\ RGe(c, F(-1))
new_vert_ok(vert) ==
    InUnitRange(vert[1]) /\ InUnitRange(vert[2]) /\ InUnitRange(vert[3])
MutNewVertNoFlip(width, height, vert) ==
    <<RDiv(RMul(F(width), RAdd(vert[1], One)), F(2)),
      RMul(F(height), RDiv(RAdd(vert[2], One), F(2))),
      RMul(RAdd(vert[3], One), Q(1, 2))>>
new_vert(width, height, vert) ==
    <<RDiv(RMul(F(width), RAdd(vert[1], One)), F(2)),
      RMul(F(height), RSub(One, RDiv(RAdd(vert[2], One), F(2)))),
      RMul(RAdd(vert[3], One), Q(1, 2))>>
viewport_transform(width, height, tri) ==
    RasterizerTriangle_new(
        <<new_vert(width, height, tri.vertices[1]),
          new_vert(width, height, tri.vertices[2]),
          new_vert(width, height, tri.vertices[3])>>,
        <<tri.vertices[1][4], tri.vertices[2][4], tri.vertices[3][4]>>,
        tri.vertex_attributes)

\* Rasterizer::depth_coverage, samples i..N_MSAA_SAMPLES-1
MutDepthPassesOrEqual(sampled, cur) == RLe(sampled, cur)
DepthPasses(sampled, cur) == RLt(sampled, cur)
RECURSIVE DepthCoverageFrom(_, _, _, _, _)
DepthCoverageFrom(cur_depths, cov, sampled_depths, i, depth_cov) ==
    IF i >= N_MSAA_SAMPLES THEN depth_cov
    ELSE DepthCoverageFrom(cur_depths, cov, sampled_depths, i + 1,
            IF CoverageMask_get(cov, i)
            THEN CoverageMask_set(depth_cov, i,
                                  DepthPasses(sampled_depths[i], cur_depths[i]))
            ELSE depth_cov)
MutDepthCoverageNoTest(depth_buffer, width, row, col, cov, sampled_depths) == cov
depth_coverage(depth_buffer, width, row, col, cov, sampled_depths) ==
    DepthCoverageFrom(depth_buffer[row * width + col], cov, sampled_depths, 0,
                      CoverageMask_new)

\* Rasterizer::write_pixel, samples i..N_MSAA_SAMPLES-1.  st holds the colour
\* and depth samples of the buffer set being drawn into.
MutWritePixelAll(st, idx, color, depths, cov_mask, i) ==
    [st EXCEPT !.color[idx] = [s \in Samples |-> to_argb(color)],
               !.depth[idx] = depths]
RECURSIVE WritePixelFrom(_, _, _, _, _, _)
WritePixelFrom(st, idx, color, depths, cov_mask, i) ==
    IF i >= N_MSAA_SAMPLES \/ st.error # "none" THEN st
    ELSE IF ~CoverageMask_get(cov_mask, i)
    THEN WritePixelFrom(st, idx, color, depths, cov_mask, i + 1)
    ELSE
      LET colored == [st EXCEPT !.color[idx][i] = to_argb(color)]
      IN  IF RGe(depths[i], Zero) /\ RLe(depths[i], One)
          THEN WritePixelFrom([colored EXCEPT !.depth[idx][i] = depths[i]],
                              idx, color, depths, cov_mask, i + 1)
          ELSE [colored EXCEPT !.error = "set_depth"]
write_pixel(st, width, row, col, color, depths, cov_mask) ==
    WritePixelFrom(st, row * width + col, color, depths, cov_mask, 0)

\* One more pass of the loop body in st.log: the pixel, the triangle after
\* edge_functions.eval and its coverage mask, the mask after the depth test,
\* the colour the fragment shader returned (<<>> when it was not called),
\* the sampled depths, and the samples of the buffer set before and after
\* the pass.
Logged(st, idx, evaluated, cov_mask, col, depths, after) ==
    [after EXCEPT !.log = Append(@, [idx |-> idx,
                                     tri |-> [evaluated EXCEPT !.edge_functions.coverage_evaluated =
                                                 [s \in Samples |-> @[s]]],
                                     mask |-> evaluated.edge_functions.coverage_mask,
                                     cov_mask |-> cov_mask, col |-> col,
                                     depths |-> depths,
                                     color_before |-> st.color,
                                     depth_before |-> st.depth,
                                     color_after |-> after.color,
                                     depth_after |-> after.depth,
                                     error |-> after.error])]
\* let col = fragment_shader(..); self.write_pixel(i, j, col, ..)
Shaded(st, width, evaluated, i, j, frag, cov_mask, col) ==
    Logged(st, i * width + j, evaluated, cov_mask, col, frag.sampled_depths,
           write_pixel(st, width, i, j, col, frag.sampled_depths, cov_mask))
\* The body of the pixel loops of Rasterizer::rasterize for pixel (j, i),
\* from the inside out: with the coverage after the depth test,
PixelDepthTested(st, width, evaluated, i, j, frag, cov_mask) ==
    IF CoverageMask_empty(cov_mask)
    THEN Logged(st, i * width + j, evaluated, cov_mask, <<>>,
                frag.sampled_depths, st)
    ELSE IF ~interpolate_ok(evaluated, j, i, cov_mask)
    THEN [st EXCEPT !.error = "clamp_bary"]
    ELSE Shaded(st, width, evaluated, i, j, frag, cov_mask,
             fragment_shader([x |-> RAdd(F(j), Q(1, 2)), y |-> RAdd(F(i), Q(1, 2)),
                              depths |-> frag.sampled_depths,
                              mask |-> evaluated.edge_functions.coverage_mask],
                             interpolate(evaluated, j, i, cov_mask)))
\* with the fragment of a pixel that has coverage,
PixelFragment(st, width, evaluated, i, j, frag) ==
    IF ~frag.ok THEN [st EXCEPT !.error = "clamp_bary"]
    ELSE IF i * width + j \notin DOMAIN st.depth THEN [st EXCEPT !.error = "index"]
    ELSE PixelDepthTested(st, width, evaluated, i, j, frag,
             depth_coverage(st.depth, width, i, j,
                            evaluated.edge_functions.coverage_mask,
                            frag.sampled_depths))
\* with the triangle after edge_functions.eval(j, i),
PixelEvaluated(st, width, evaluated, i, j) ==
    [st |-> IF ~CoverageMask_any(evaluated.edge_functions.coverage_mask)
            THEN Logged(st, i * width + j, evaluated, CoverageMask_new, <<>>,
                        <<>>, st)
            ELSE PixelFragment(st, width, evaluated, i, j, fragment(evaluated)),
     tri |-> evaluated]
\* and the whole body.  tri carries the edge functions as the previous pixel
\* left them.
RasterPixel(st, width, tri, i, j) ==
    PixelEvaluated(st, width, [tri EXCEPT !.edge_functions = eval(@, j, i)], i, j)

\* for i in b_box.min_y..b_box.max_y { for j in b_box.min_x..b_box.max_x {..} }
\* from the n-th pixel of the box on, in row-major order; r is what the body
\* left for pixel n
RECURSIVE RasterBox(_, _, _, _, _)
RasterBoxAfter(r, width, b_box, n) == RasterBox(r.st, width, r.tri, b_box, n + 1)
RasterBox(st, width, tri, b_box, n) ==
    IF \/ n >= (b_box.max_y - b_box.min_y) * (b_box.max_x - b_box.min_x)
       \/ st.error # "none"
    THEN st
    ELSE RasterBoxAfter(
             RasterPixel(st, width, tri,
                         b_box.min_y + (n \div (b_box.max_x - b_box.min_x)),
                         b_box.min_x + (n % (b_box.max_x - b_box.min_x))),
             width, b_box, n)

\* The body of `for triangle in triangles` of Rasterizer::rasterize, from the
\* inside out.  A division by zero (w = 0, or a zero screen-space area)
\* leaves the range of the exact arithmetic and is reported as "non_finite".
RasterBounded(st, width, tri, bb) ==
    IF ~bb.ok THEN [st EXCEPT !.error = "bounding_box"]
    ELSE RasterBox(st, width, tri, bb.box, 0)
RasterOnScreen(st, width, tri) ==
    IF tri.inv_2x_area[2] = 0 THEN [st EXCEPT !.error = "non_finite"]
    ELSE RasterBounded(st, width, tri,
                       PixelBoundingBox_from(tri.edge_functions.points))
RasterDivided(st, width, height, ndc) ==
    IF \E k \in 1..3 : ~new_vert_ok(ndc.vertices[k])
    THEN [st EXCEPT !.error = "viewport_transform"]
    ELSE RasterOnScreen(st, width, viewport_transform(width, height, ndc))
RasterTriangle(st, width, height, t) ==
    IF can_cull(t.vertices) THEN st
    ELSE IF \E k \in 1..3 : t.vertices[k][4][1] = 0
    THEN [st EXCEPT !.error = "non_finite"]
    ELSE RasterDivided(st, width, height, perspective_divide(t))

\* Rasterizer::rasterize, triangles k..Len(triangles)
RECURSIVE RasterizeFrom(_, _, _, _, _)
RasterizeFrom(st, width, height, triangles, k) ==
    IF k > Len(triangles) \/ st.error # "none" THEN st
    ELSE RasterizeFrom(RasterTriangle(st, width, height, triangles[k]),
                       width, height, triangles, k + 1)
rasterize(st, width, height, triangles) ==
    RasterizeFrom(st, width, height, triangles, 1)

\* Rasterizer::resolve_and_clear(buf_idx): the buffer set it resolves and
\* clears is self.buf_idx; the parameter is not read.
MutResolvedSetFirst(self_buf_idx, buf_idx) == 0
ResolvedSet(self_buf_idx, buf_idx) == self_buf_idx
resolve(color_buffer) == [idx \in Pixels |-> box_filter_color(color_buffer[idx])]

\* ------------------------------------------------------------------------
\* rasterizer.rs: the rasterizer with one sample per pixel.  Its
\* PixelBoundingBox::from, EdgeFunctions::inside, triangle_2x_area,
\* perspective_divide, viewport_transform and can_cull are line by line those
\* of rasterizer/; those operators are used for both.
\* ------------------------------------------------------------------------

\* Color::to_bgra (graphics_primitives.rs)
to_bgra(color) ==
    U32Or(U32Or(U32Of(ChannelByte(color[3])), U32Shl8(ChannelByte(color[2]))),
          U32Or(U32Shl16(ChannelByte(color[1])), U32Shl24(ChannelByte(color[4]))))
\* The colour of ColorBuffer::clear
DarkGrey == <<Q(1, 10), Q(1, 10), Q(1, 10), One>>
\* f32::MAX: above every depth
F32_MAX == F(1000000)

\* ColorBuffer::set_pixel on [buffer, width, height, panicked]; buffer[k + 1]
\* is element k of the Vec, and an index past its end panics
Single_set_pixel(cb, row, col, color) ==
    IF row * cb.width + col + 1 \in DOMAIN cb.buffer
    THEN [cb EXCEPT !.buffer[row * cb.width + col + 1] = to_bgra(color)]
    ELSE [cb EXCEPT !.panicked = TRUE]
\* ColorBuffer::clear: for i in 0..self.width { for j in 0..self.height {
\* self.set_pixel(i, j, ..) } }, from pass n of the loop body on
RECURSIVE SingleClearFrom(_, _)
SingleClearFrom(cb, n) ==
    IF n >= cb.width * cb.height \/ cb.panicked THEN cb
    ELSE SingleClearFrom(Single_set_pixel(cb, n \div cb.height, n % cb.height, DarkGrey),
                         n + 1)
SingleColorBuffer_clear(cb) == SingleClearFrom(cb, 0)
\* ColorBuffer::new
SingleColorBuffer_new(width, height) ==
    SingleColorBuffer_clear([buffer |-> [k \in 1..(width * height) |-> U32Of(0)],
                             width |-> width, height |-> height, panicked |-> FALSE])
\* DepthBuffer::new and DepthBuffer::clear
SingleDepthBuffer_new(width, height) == [k \in 1..(width * height) |-> F32_MAX]
SingleDepthBuffer_clear(buffer) == [k \in DOMAIN buffer |-> F32_MAX]

\* RasterizerTriangle::new
SingleShape(t) ==
    [edge_functions |-> [points |-> t.edge_functions.points,
                         normals |-> t.edge_functions.normals,
                         evaluated |-> <<Zero, Zero, Zero>>],
     depths_camera_space |-> t.depths_camera_space,
     depths |-> t.depths,
     attributes |-> t.attributes,
     inv_2x_area |-> t.inv_2x_area]
SingleTriangle_new(vertices, depths_camera_space, attributes) ==
    SingleShape(RasterizerTriangle_new(vertices, depths_camera_space, attributes))
\* EdgeFunctions::eval
Single_eval(tri, x, y) ==
    [tri EXCEPT !.edge_functions.evaluated = eval_single(tri.edge_functions, x, y)]
\* EdgeFunctions::step_x
Single_step_x(tri) ==
    [tri EXCEPT !.edge_functions.evaluated =
        [k \in 1..3 |-> RAdd(tri.edge_functions.evaluated[k],
                             tri.edge_functions.normals[k][1])]]
\* clamp_bary: const EPS: f32 = 0.0005
SINGLE_EPS == Q(1, 2000)
Single_clamp_bary_ok(x) == RGe(x, RNeg(SINGLE_EPS)) /\ RLe(x, RAdd(One, SINGLE_EPS))
\* RasterizerTriangle::fragment: the assertions, and the depth
SingleDepthOk(raw0, raw1) ==
    /\ Single_clamp_bary_ok(raw0) /\ Single_clamp_bary_ok(raw1)
    /\ Single_clamp_bary_ok(RSub(RSub(One, clamp_bary(raw0)), clamp_bary(raw1)))
Single_fragment_ok(tri) ==
    SingleDepthOk(RMul(tri.edge_functions.evaluated[2], tri.inv_2x_area),
                  RMul(tri.edge_functions.evaluated[3], tri.inv_2x_area))
Single_fragment_depth(tri) == interpolate_depth(tri, tri.edge_functions.evaluated)
\* Fragment::interpolate
SingleBarysOk(b) ==
    /\ b.sum[1] # 0
    /\ Single_clamp_bary_ok(b.raw_u) /\ Single_clamp_bary_ok(b.raw_v)
    /\ Single_clamp_bary_ok(b.raw_w)
Single_interpolate_ok(tri) == SingleBarysOk(PerspectiveAt(tri, tri.edge_functions.evaluated))
Single_interpolate(tri) ==
    Weighted(tri.attributes, PerspectiveAt(tri, tri.edge_functions.evaluated))

\* One more pass of the pixel loop in st.log: the pixel, the edge functions
\* the pass worked with, and what it did: "outside", "rejected" by the depth
\* test, or "written"
SingleLogged(st, tri, i, j, outcome) ==
    [st EXCEPT !.log = Append(@, [i |-> i, j |-> j, edge_functions |-> tri.edge_functions,
                                  outcome |-> outcome])]
\* Rasterizer::write_pixel on the buffer set st
Single_write_pixel(st, idx, color, depth) ==
    IF RGe(depth, Zero) /\ RLe(depth, One)
    THEN [st EXCEPT !.color[idx + 1] = to_bgra(color), !.depth[idx + 1] = depth]
    ELSE [st EXCEPT !.color[idx + 1] = to_bgra(color), !.error = "set_depth"]
\* The body of the pixel loop of Rasterizer::rasterize for pixel (j, i),
\* from the inside out: the shader call and write_pixel,
SingleShaded(st, width, tri, i, j, depth) ==
    IF ~Single_interpolate_ok(tri) THEN [st EXCEPT !.error = "clamp_bary"]
    ELSE SingleLogged(
             Single_write_pixel(st, i * width + j,
                 fragment_shader([x |-> RAdd(F(j), Q(1, 2)), y |-> RAdd(F(i), Q(1, 2)),
                                  depth |-> depth],
                                 Single_interpolate(tri)),
                 depth),
             tri, i, j, "written")
\* the depth test: `continue` leaves the pass before step_edge_func_x,
SingleDepthTested(st, width, tri, i, j, depth) ==
    IF i * width + j + 1 \notin DOMAIN st.depth
    THEN [st |-> [st EXCEPT !.error = "index"], tri |-> tri]
    ELSE IF RLt(st.depth[i * width + j + 1], depth)
    THEN [st |-> SingleLogged(st, tri, i, j, "rejected"), tri |-> tri]
    ELSE [st |-> SingleShaded(st, width, tri, i, j, depth), tri |-> Single_step_x(tri)]
\* and the whole body
SinglePixel(st, width, tri, i, j) ==
    IF ~inside(tri.edge_functions.normals, tri.edge_functions.evaluated)
    THEN [st |-> SingleLogged(st, tri, i, j, "outside"), tri |-> Single_step_x(tri)]
    ELSE IF ~Single_fragment_ok(tri)
    THEN [st |-> [st EXCEPT !.error = "clamp_bary"], tri |-> tri]
    ELSE SingleDepthTested(st, width, tri, i, j, Single_fragment_depth(tri))
\* for i in b_box.min_y..b_box.max_y { triangle.eval_edge_functions(..);
\* for j in b_box.min_x..b_box.max_x { .. } } from the n-th pixel of the box
\* on, in row-major order
RECURSIVE SingleBox(_, _, _, _, _)
SingleBoxAfter(r, width, b_box, n) == SingleBox(r.st, width, r.tri, b_box, n + 1)
SingleBoxPixel(st, width, tri, b_box, i, j) ==
    SinglePixel(st, width,
                IF j = b_box.min_x
                THEN Single_eval(tri, RAdd(F(b_box.min_x), Q(1, 2)), RAdd(F(i), Q(1, 2)))
                ELSE tri,
                i, j)
SingleBox(st, width, tri, b_box, n) ==
    IF \/ n >= (b_box.max_y - b_box.min_y) * (b_box.max_x - b_box.min_x)
       \/ st.error # "none"
    THEN st
    ELSE SingleBoxAfter(
             SingleBoxPixel(st, width, tri, b_box,
                            b_box.min_y + (n \div (b_box.max_x - b_box.min_x)),
                            b_box.min_x + (n % (b_box.max_x - b_box.min_x))),
             width, b_box, n)
\* The body of `for triangle in triangles`, from the inside out
SingleBounded(st, width, tri, bb) ==
    IF ~bb.ok THEN [st EXCEPT !.error = "bounding_box"]
    ELSE SingleBox(st, width, tri, bb.box, 0)
SingleOnScreen(st, width, tri) ==
    IF tri.inv_2x_area[2] = 0 THEN [st EXCEPT !.error = "non_finite"]
    ELSE SingleBounded(st, width, tri, PixelBoundingBox_from(tri.edge_functions.points))
SingleDivided(st, width, height, ndc) ==
    IF \E k \in 1..3 : ~new_vert_ok(ndc.vertices[k])
    THEN [st EXCEPT !.error = "viewport_transform"]
    ELSE SingleOnScreen(st, width,
             SingleTriangle_new(<<new_vert(width, height, ndc.vertices[1]),
                                  new_vert(width, height, ndc.vertices[2]),
                                  new_vert(width, height, ndc.vertices[3])>>,
                                <<ndc.vertices[1][4], ndc.vertices[2][4], ndc.vertices[3][4]>>,
                                ndc.vertex_attributes))
SingleTriangle(st, width, height, t) ==
    IF can_cull(t.vertices) THEN st
    ELSE IF \E k \in 1..3 : t.vertices[k][4][1] = 0
    THEN [st EXCEPT !.error = "non_finite"]
    ELSE SingleDivided(st, width, height, perspective_divide(t))
\* Rasterizer::rasterize, triangles k..Len(triangles)
RECURSIVE SingleRasterizeFrom(_, _, _, _, _)
SingleRasterizeFrom(st, width, height, triangles, k) ==
    IF k > Len(triangles) \/ st.error # "none" THEN st
    ELSE SingleRasterizeFrom(SingleTriangle(st, width, height, triangles[k]),
                             width, height, triangles, k + 1)
Single_rasterize(st, width, height, triangles) ==
    SingleRasterizeFrom(st, width, height, triangles, 1)

\* ------------------------------------------------------------------------
\* State
\* ------------------------------------------------------------------------

VARIABLES
    triangle,      \* the Triangle<ClipSpace> handed to try_clip / can_cull
    clip_origin,   \* where it comes from: "caller", or "inside" (a triangle
                   \* that an earlier try_clip reported Inside)
    clip_pc,       \* "input": not clipped yet; "returned": try_clip has run;
                   \* "culled": can_cull has run; "reclipped": the triangles
                   \* of the Clipped list have been clipped again
    clip_result,   \* what try_clip(triangle) returned
    reclip_results, \* the ClipResult variant of try_clip for each triangle of
                   \* clip_result's Clipped list
    cull_result,   \* what can_cull(triangle.vertices) returned ("true" or
                   \* "false"), "none" before the call
    color_buffers, \* Rasterizer.color_buffers: [0..1 -> ColorBuffer]
    depth_buffers, \* Rasterizer.depth_buffers: [0..1 -> DepthBuffer]
    buf_idx,       \* Rasterizer.buf_idx
    raster_error,  \* "none", or the assertion on which a call panicked
    presented,     \* the slice returned by the last swap_buffers, <<>> before
    last_call,     \* the last call on the Rasterizer and what it was given:
                   \* the slice of triangles, and the samples of the buffer
                   \* set that was being drawn into when it was called; the
                   \* passes of the pixel loop it made; and the buffer set it
                   \* drew into or returned the resolve buffer of
    ops,           \* number of calls on the Rasterizer so far
    frame,         \* number of the frame being drawn, from 1
    frame_triangles, \* the triangles given to rasterize in this frame, in order
    rast_triangle, \* a RasterizerTriangle and
    neighbour,     \* one that shares an edge with it, in the opposite direction
    shared_edge,   \* the end points of that edge, in rast_triangle's direction
    eval_pixel,    \* pixel of the last edge_functions.eval, <<>> before
    eval_prev_mask, \* coverage mask before that eval
    edge_sample,   \* last test of a point of the shared edge: the point and
                   \* what inside returned for rast_triangle and neighbour
    fn_call,       \* a call of an associated function: its name and arguments
    fn_ret,        \* and, once it has returned, what it returned
    mask_state,    \* a CoverageMask: its field mask, and a record of the set
                   \* calls made on it (the last one, the mask before it, and
                   \* per bit the last value set)
    buffer_tiles,  \* a BufferTiles, and a record of the pixels given to mark
                   \* since the last next() and between the two last next()
    single         \* the Rasterizer of rasterizer.rs (one sample per pixel)

clip_vars == <<triangle, clip_origin, clip_pc, clip_result, reclip_results, cull_result>>
raster_vars == <<color_buffers, depth_buffers, buf_idx, raster_error, presented,
                 last_call, ops, frame, frame_triangles>>
edge_vars == <<rast_triangle, neighbour, shared_edge, eval_pixel, eval_prev_mask, edge_sample>>

object_vars == <<mask_state, buffer_tiles, single>>
call_vars == <<fn_call, fn_ret, object_vars>>

vars == <<clip_vars, raster_vars, edge_vars, call_vars>>

\* Rasterizer::new(WIDTH, HEIGHT)
Rasterizer_new ==
    /\ color_buffers = [b \in 0..1 |-> ColorBuffer_new]
    /\ depth_buffers = [b \in 0..1 |-> DepthBuffer_new]
    /\ buf_idx = 0
    /\ raster_error = "none"
    /\ presented = <<>>
    /\ last_call = [op |-> "new", triangles |-> <<>>,
                    color |-> ClearColorBuffer, depth |-> ClearDepthBuffer,
                    log |-> <<>>, set |-> 0]
    /\ ops = 0
    /\ frame = 1
    /\ frame_triangles = <<>>

\* No triangle is being clipped.
NoClipping ==
    /\ triangle = [vertices |-> <<>>, vertex_attributes |-> <<>>]
    /\ clip_origin = "caller"
    /\ clip_pc = "idle"
    /\ clip_result = [kind |-> "none", tris |-> <<>>, path |-> "none", trace |-> NoTrace]
    /\ reclip_results = <<>>
    /\ cull_result = "none"

NoEdgeSample == [tested |-> FALSE, point |-> <<>>, here |-> FALSE, there |-> FALSE]

\* No triangle is set up for edge function evaluation.
NoEdgeFunctions ==
    /\ rast_triangle = <<>>
    /\ neighbour = <<>>
    /\ shared_edge = <<>>
    /\ eval_pixel = <<>>
    /\ eval_prev_mask = 0
    /\ edge_sample = NoEdgeSample

\* No associated function is being called.
NoObjects ==
    /\ mask_state = <<>>
    /\ buffer_tiles = <<>>
    /\ single = <<>>
NoCall ==
    /\ fn_call = [fn |-> "none"]
    /\ fn_ret = [done |-> FALSE]
    /\ NoObjects

\* ------------------------------------------------------------------------
\* The clipper driven by a caller
\* ------------------------------------------------------------------------

ClipCoords == (-MaxCoord)..MaxCoord
ClipGrid ==
    {<<F(x), F(y), F(0), F(1)>> : x \in ClipCoords, y \in ClipCoords}
\* Points away from the z = 0, w = 1 grid: beyond FAR, beyond NEAR, on FAR,
\* strictly inside with w = 2, beyond RIGHT with w = 2, and w <= 0; with
\* three points of the grid.
SpecialClipPoints ==
    {<<F(0), F(0), F(2), F(1)>>, <<F(0), F(1), F(-2), F(1)>>,
     <<F(1), F(0), F(1), F(1)>>, <<F(1), F(-1), F(0), F(2)>>,
     <<F(-1), F(1), F(-1), F(2)>>, <<F(3), F(1), F(0), F(2)>>,
     <<F(0), F(1), F(0), F(0)>>, <<F(1), F(0), F(0), F(-1)>>,
     <<F(-1), F(-1), F(0), F(-1)>>,
     <<F(0), F(0), F(0), F(1)>>, <<F(-1), F(0), F(0), F(1)>>,
     <<F(1), F(1), F(0), F(1)>>}
ATTRIBUTES == <<F(0), F(1), F(2)>>
Triangles(points) ==
    {[vertices |-> <<a, b, c>>, vertex_attributes |-> ATTRIBUTES] :
        a \in points, b \in points, c \in points}
\* Points with w = 2 that no plane passes through: (1.5, 0, 0), (0.6, 1, 0)
\* strictly inside, (2.5, 1, 0) and (3, -1, 0) beyond RIGHT, (0, 0, 3) and
\* (1, 0, 2.5) beyond FAR
StraddlePoints ==
    {<<Q(3, 2), F(0), F(0), F(2)>>, <<Q(3, 5), F(1), F(0), F(2)>>,
     <<Q(5, 2), F(1), F(0), F(2)>>, <<F(3), F(-1), F(0), F(2)>>,
     <<F(0), F(0), F(3), F(2)>>, <<F(1), F(0), Q(5, 2), F(2)>>}
ClipInputs ==
    Triangles(ClipGrid) \cup Triangles(SpecialClipPoints) \cup Triangles(StraddlePoints)

NoResult == [kind |-> "none", tris |-> <<>>, path |-> "none", trace |-> NoTrace]

ClipInit ==
    /\ triangle \in ClipInputs
    /\ clip_origin = "caller"
    /\ clip_pc = "input"
    /\ clip_result = NoResult
    /\ reclip_results = <<>>
    /\ cull_result = "none"
    /\ Rasterizer_new
    /\ NoEdgeFunctions
    /\ NoCall

\* let r = try_clip(&triangle);
TryClipCall ==
    /\ clip_pc = "input"
    /\ clip_result' = try_clip(triangle)
    /\ clip_pc' = "returned"
    /\ UNCHANGED <<triangle, clip_origin, reclip_results, cull_result, raster_vars, edge_vars, call_vars>>

\* Rasterizer::can_cull(&triangle.vertices)
CanCullCall ==
    /\ clip_pc = "input"
    /\ clip_origin = "caller"
    /\ cull_result' = IF can_cull(triangle.vertices) THEN "true" ELSE "false"
    /\ clip_pc' = "culled"
    /\ UNCHANGED <<triangle, clip_origin, clip_result, reclip_results, raster_vars, edge_vars, call_vars>>

\* for t in clipped { try_clip(&t) }: the caller clips every triangle of the
\* Clipped list again (test_clipped_tris_are_inside).
ReClip ==
    /\ clip_pc = "returned"
    /\ clip_origin = "caller"
    /\ clip_result.kind = "Clipped"
    /\ reclip_results' =
          [k \in DOMAIN clip_result.tris |-> try_clip(clip_result.tris[k]).kind]
    /\ clip_pc' = "reclipped"
    /\ UNCHANGED <<triangle, clip_origin, clip_result, cull_result, raster_vars, edge_vars, call_vars>>

\* The caller clips a triangle again that try_clip reported Inside.
ClipAgain ==
    /\ clip_pc = "returned"
    /\ clip_origin = "caller"
    /\ clip_result.kind = "Inside"
    /\ clip_origin' = "inside"
    /\ clip_pc' = "input"
    /\ clip_result' = NoResult
    /\ UNCHANGED <<triangle, reclip_results, cull_result, raster_vars, edge_vars, call_vars>>

ClipNext == TryClipCall \/ CanCullCall \/ ReClip \/ ClipAgain

SpecClip == ClipInit /\ [][ClipNext]_vars

\* ------------------------------------------------------------------------
\* Properties of the clipper
\* ------------------------------------------------------------------------

\* |2x area| < 0.000001, for the triangles the caller hands in
AreaBelowEps(t) ==
    RLt(RAbs(triangle_2x_area(t.vertices)),
        Q(1, CULL_DEGENERATE_TRIANGLE_AREA_EPS_DEN))
\* -w <= x <= w, -w <= y <= w and -w <= z <= w
WithinVolume(v) ==
    \A axis \in 1..3 : RLe(RNeg(v[4]), v[axis]) /\ RLe(v[axis], v[4])

\* C1: closure of try_clip.  Whenever try_clip(t) = Clipped(list), clipping
\* each triangle of the list again returns Inside.
ClippedTrisAreInside ==
    clip_pc = "reclipped" =>
        \A k \in DOMAIN reclip_results : reclip_results[k] = "Inside"

\* C2: a triangle that passes the fast checks and whose polygon becomes empty
\* after the pass of some plane makes try_clip return Outside (no panic).
EmptyPolygonIsOutside ==
    (/\ clip_pc = "returned"
     /\ clip_result.path = "clip"
     /\ \E k \in DOMAIN clip_result.trace.sizes : clip_result.trace.sizes[k] = 0)
    => clip_result.kind = "Outside"

\* C5: every intersection vertex emitted for an edge (prev_vert, cur_vert)
\* is computed with alpha = d0 / (d0 - d1) from the boundary coordinates d0,
\* d1 of that edge's own end points: it lies on the plane, and its attribute
\* is interpolated with the same alpha.
IntersectionsUseOwnEdge ==
    clip_pc = "returned" =>
        \A k \in DOMAIN clip_result.trace.emitted :
            LET rec == clip_result.trace.emitted[k]
                d0 == distance_measure(rec.plane, rec.prev_vert)
                d1 == distance_measure(rec.plane, rec.cur_vert)
                alpha == RDiv(d0, RSub(d0, d1))
            IN  /\ rec.alpha = alpha
                /\ distance_measure(rec.plane, rec.point) = Zero
                /\ rec.attr = RAdd(rec.prev_attr,
                                   RMul(alpha, RSub(rec.cur_attr, rec.prev_attr)))

\* C6: try_clip returns Inside exactly for the non-degenerate triangles whose
\* three vertices are within the view volume, bounds included; a triangle it
\* reported Inside is reported Inside when it is clipped again.
InsideIffWithinVolume ==
    clip_pc = "returned" =>
        /\ clip_result.kind = "Inside"
             <=> (/\ ~AreaBelowEps(triangle)
                  /\ \A i \in 1..3 : WithinVolume(triangle.vertices[i]))
        /\ clip_origin = "inside" => clip_result.kind = "Inside"

\* C6 witness: a triangle with a vertex exactly on the RIGHT plane was
\* reported Inside, clipped again, and reported Inside again.
InsideTwiceOnPlane ==
    /\ clip_pc = "returned"
    /\ clip_origin = "inside"
    /\ clip_result.kind = "Inside"
    /\ \E i \in 1..3 : triangle.vertices[i][1] = triangle.vertices[i][4]

\* C7: the fast path returns Outside only when one clip plane has all three
\* vertices in its outside half-space.
FastOutsideHasOnePlane ==
    (/\ clip_pc = "returned"
     /\ clip_result.kind = "Outside"
     /\ clip_result.path = "fast")
    => \E k \in DOMAIN CLIP_PLANES :
           \A i \in 1..3 :
               RLt(distance_measure(CLIP_PLANES[k], triangle.vertices[i]), Zero)

\* C8: a triangle with |2x area| < 0.000001 makes try_clip return Outside
\* and can_cull return true, whatever its w values and wherever it lies;
\* can_cull returns true when all w <= 0, and false for a triangle that is
\* not degenerate and has some w > 0.
DegenerateIsCulled ==
    /\ (clip_pc = "returned" /\ AreaBelowEps(triangle))
         => clip_result.kind = "Outside"
    /\ clip_pc = "culled" =>
         /\ AreaBelowEps(triangle) => cull_result = "true"
         /\ (\A i \in 1..3 : RLe(triangle.vertices[i][4], Zero))
              => cull_result = "true"
         /\ (/\ ~AreaBelowEps(triangle)
             /\ \E i \in 1..3 : RGt(triangle.vertices[i][4], Zero))
              => cull_result = "false"

\* C8 witness: can_cull has returned true for a triangle with two identical
\* vertices that has a vertex with w > 0 inside the view volume.
CulledDegenerateInVolume ==
    /\ clip_pc = "culled"
    /\ cull_result = "true"
    /\ triangle.vertices[1] = triangle.vertices[2]
    /\ triangle.vertices[1] # triangle.vertices[3]
    /\ RGt(triangle.vertices[1][4], Zero)
    /\ WithinVolume(triangle.vertices[1])

\* ------------------------------------------------------------------------
\* The rasterizer driven by a render loop
\* ------------------------------------------------------------------------

MaxOps == 4

RED == <<F(1), F(0), F(0), F(1)>>
GREEN == <<F(0), F(1), F(0), F(1)>>
BLUE == <<F(0), F(0), F(1), F(1)>>
GREY == <<Q(1, 2), Q(1, 2), Q(1, 2), F(1)>>
Flat(color) == <<color, color, color>>

\* The upper left half of the screen at depth 1/4
TriNear == [vertices |-> <<<<F(-1), F(1), Q(-1, 2), F(1)>>, <<F(1), F(1), Q(-1, 2), F(1)>>,
                           <<F(-1), F(-1), Q(-1, 2), F(1)>>>>,
            vertex_attributes |-> Flat(RED)]
\* The same triangle in another colour
TriSame == [TriNear EXCEPT !.vertex_attributes = Flat(GREEN)]
\* The same area with depth 0 along the top edge and 1 at the bottom vertex
TriSlanted == [vertices |-> <<<<F(-1), F(1), F(-1), F(1)>>, <<F(1), F(1), F(-1), F(1)>>,
                              <<F(-1), F(-1), F(1), F(1)>>>>,
               vertex_attributes |-> Flat(BLUE)]
\* Left edge to the middle of the right edge, one vertex with w = 2;
\* depths 1/2, 1/4, 1/2
TriPerspective ==
    [vertices |-> <<<<F(-1), F(1), F(0), F(1)>>, <<F(2), F(0), F(-1), F(2)>>,
                    <<F(-1), F(-1), F(0), F(1)>>>>,
     vertex_attributes |-> Flat(GREY)]
\* TriNear with the opposite winding
TriBack == [vertices |-> <<<<F(-1), F(-1), F(0), F(1)>>, <<F(1), F(1), F(0), F(1)>>,
                           <<F(-1), F(1), F(0), F(1)>>>>,
            vertex_attributes |-> Flat(BLUE)]
\* Behind the camera: culled
TriBehind == [vertices |-> <<<<F(-1), F(1), F(0), F(-1)>>, <<F(1), F(1), F(0), F(-1)>>,
                             <<F(-1), F(-1), F(0), F(0)>>>>,
              vertex_attributes |-> Flat(RED)]

\* TriNear with its second vertex beyond the RIGHT plane (x = 2 > w)
TriOutside == [vertices |-> <<<<F(-1), F(1), F(0), F(1)>>, <<F(2), F(1), F(0), F(1)>>,
                              <<F(-1), F(-1), F(0), F(1)>>>>,
               vertex_attributes |-> Flat(GREEN)]
\* Clip-space xy (-1, 0), (1, 1), (0, 1) with 2x area 1; after the division
\* by w the points (-1, 0), (1, 1), (0, 1/2) of one line
TriCollinear == [vertices |-> <<<<F(-1), F(0), F(0), F(1)>>, <<F(1), F(1), F(0), F(1)>>,
                                <<F(0), F(1), F(0), F(2)>>>>,
                 vertex_attributes |-> Flat(BLUE)]

RasterSlices ==
    {<<TriNear>>, <<TriSlanted, TriSame>>, <<TriBehind, TriPerspective, TriBack>>,
     <<TriOutside>>, <<TriCollinear>>}

\* rasterizer.rasterize(&triangles, &uniforms, fragment_shader)
Rasterize ==
    /\ raster_error = "none"
    /\ ops < MaxOps
    /\ \E triangles \in RasterSlices :
         LET st == rasterize([color |-> color_buffers[buf_idx].buffer,
                              depth |-> depth_buffers[buf_idx].buffer,
                              error |-> "none", log |-> <<>>],
                             WIDTH, HEIGHT, triangles)
         IN  /\ color_buffers' = [color_buffers EXCEPT ![buf_idx].buffer = st.color]
             /\ depth_buffers' = [depth_buffers EXCEPT ![buf_idx].buffer = st.depth]
             /\ raster_error' = st.error
             /\ last_call' = [op |-> "rasterize", triangles |-> triangles,
                              color |-> color_buffers[buf_idx].buffer,
                              depth |-> depth_buffers[buf_idx].buffer,
                              log |-> st.log, set |-> buf_idx]
             /\ frame_triangles' = frame_triangles \o triangles
    /\ ops' = ops + 1
    /\ UNCHANGED <<buf_idx, presented, frame, clip_vars, edge_vars, call_vars>>

\* let pixels = rasterizer.swap_buffers();
SwapBuffers ==
    /\ raster_error = "none"
    /\ ops < MaxOps
    /\ LET prev == buf_idx
           next_idx == (buf_idx + 1) % 2
           set == ResolvedSet(next_idx, prev)
           resolved == resolve(color_buffers[set].buffer)
       IN  /\ buf_idx' = next_idx
           /\ color_buffers' = [color_buffers EXCEPT ![set] =
                                  [buffer |-> ClearColorBuffer,
                                   resolve_buffer |-> resolved]]
           /\ depth_buffers' = [depth_buffers EXCEPT ![set] =
                                  [buffer |-> ClearDepthBuffer]]
           /\ presented' = resolved
           /\ last_call' = [op |-> "swap_buffers", triangles |-> <<>>,
                            color |-> color_buffers[prev].buffer,
                            depth |-> depth_buffers[prev].buffer, log |-> <<>>,
                            set |-> set]
    /\ frame' = frame + 1
    /\ frame_triangles' = <<>>
    /\ ops' = ops + 1
    /\ UNCHANGED <<raster_error, clip_vars, edge_vars, call_vars>>

RasterInit == Rasterizer_new /\ NoClipping /\ NoEdgeFunctions /\ NoCall
RasterNext == Rasterize \/ SwapBuffers
SpecRaster == RasterInit /\ [][RasterNext]_vars

\* ------------------------------------------------------------------------
\* Properties of the rasterizer
\* ------------------------------------------------------------------------

\* The back buffer: the buffer set rasterize draws into
BackColor == color_buffers[buf_idx].buffer
BackDepth == depth_buffers[buf_idx].buffer

\* Position of sample i of pixel idx
SamplePoint(idx, i) ==
    <<RAdd(F(idx % WIDTH), RGSS_SAMPLE_PATTERN[i][1]),
      RAdd(F(idx \div WIDTH), RGSS_SAMPLE_PATTERN[i][2])>>
\* The triangle t of clip space on the screen
OnScreen(t) == viewport_transform(WIDTH, HEIGHT, perspective_divide(t))
\* Edge functions of t at sample i of pixel idx
EdgesAt(t, idx, i) ==
    eval_single(OnScreen(t).edge_functions, SamplePoint(idx, i)[1], SamplePoint(idx, i)[2])
\* t is drawn and covers sample i of pixel idx
Covers(t, idx, i) ==
    /\ ~can_cull(t.vertices)
    /\ inside(OnScreen(t).edge_functions.normals, EdgesAt(t, idx, i))
\* The depth of t at that sample
DepthOf(t, idx, i) == interpolate_depth(OnScreen(t), EdgesAt(t, idx, i))
\* The packed colour of t (its three vertices have the same colour)
ColorOf(t) == to_argb(t.vertex_attributes[1])

\* C3: the pixel array returned by the swap_buffers call that ends a frame is
\* the box-filter resolve of the samples that the frame's rasterize calls
\* left in the buffer set they drew into.
SwapReturnsResolveOfFrame ==
    last_call.op = "swap_buffers" =>
        presented = [idx \in Pixels |-> box_filter_color(last_call.color[idx])]

\* C4: per-sample depth test.  A rasterize call changes a sample's depth or
\* colour only if one of its triangles covers the sample with a depth
\* strictly below the stored one, and no stored depth increases; at every
\* point of a frame each sample of the back buffer holds the minimum of
\* CLEAR_DEPTH and the depths of the frame's triangles that cover it, with
\* the colour of the first triangle that reached that depth.  (For calls
\* that returned: raster_error = "none".)
DepthTestPerSample ==
    raster_error = "none" =>
    \A idx \in Pixels : \A i \in Samples :
        LET cover == {k \in DOMAIN frame_triangles :
                          Covers(frame_triangles[k], idx, i)}
            least == CHOOSE k \in cover :
                \A j \in cover :
                    \/ RLt(DepthOf(frame_triangles[k], idx, i),
                           DepthOf(frame_triangles[j], idx, i))
                    \/ /\ DepthOf(frame_triangles[k], idx, i)
                            = DepthOf(frame_triangles[j], idx, i)
                       /\ k <= j
        IN  /\ IF cover = {}
               THEN BackDepth[idx][i] = CLEAR_DEPTH /\ BackColor[idx][i] = CLEAR_COLOR
               ELSE /\ RLt(DepthOf(frame_triangles[least], idx, i), CLEAR_DEPTH)
                    /\ BackDepth[idx][i] = DepthOf(frame_triangles[least], idx, i)
                    /\ BackColor[idx][i] = ColorOf(frame_triangles[least])
            /\ last_call.op = "rasterize" =>
                 /\ RLe(BackDepth[idx][i], last_call.depth[idx][i])
                 /\ (\/ BackDepth[idx][i] # last_call.depth[idx][i]
                     \/ BackColor[idx][i] # last_call.color[idx][i])
                      => \E k \in DOMAIN last_call.triangles :
                             /\ Covers(last_call.triangles[k], idx, i)
                             /\ RLt(DepthOf(last_call.triangles[k], idx, i),
                                    last_call.depth[idx][i])

\* C4 witness: a rasterize call has drawn a triangle that covers two samples
\* of one pixel; at one it has exactly the stored depth and the sample keeps
\* the colour of an earlier triangle, the other was overwritten by the call.
EqualDepthKeepsEarlier ==
    /\ last_call.op = "rasterize"
    /\ \E idx \in Pixels : \E i \in Samples, j \in Samples :
         \E k \in DOMAIN last_call.triangles :
           LET t == last_call.triangles[k]
           IN  /\ Covers(t, idx, i)
               /\ DepthOf(t, idx, i) = last_call.depth[idx][i]
               /\ BackDepth[idx][i] = last_call.depth[idx][i]
               /\ BackColor[idx][i] = last_call.color[idx][i]
               /\ BackColor[idx][i] # ColorOf(t)
               /\ BackColor[idx][i] # CLEAR_COLOR
               /\ Covers(t, idx, j)
               /\ RLt(BackDepth[idx][j], last_call.depth[idx][j])
               /\ last_call.depth[idx][j] # CLEAR_DEPTH

\* ------------------------------------------------------------------------
\* Edge functions of two triangles that share an edge
\* ------------------------------------------------------------------------

\* Vertices on pixel corners and on sample 0 of pixel (0, 0)
EdgeXs == {F(0), Q(5, 8), F(WIDTH)}
EdgeYs == {F(0), Q(1, 8), F(HEIGHT)}
EdgePoints == {<<x, y, Zero>> : x \in EdgeXs, y \in EdgeYs}
\* Where on the shared edge a point is tested, as a fraction of its length
EdgeFractions == {Q(1, 2), Q(1, 4)}

Clockwise(vertices) == RGt(triangle_2x_area(vertices), Zero)
UnitDepths == <<One, One, One>>

\* RasterizerTriangle::new for a clockwise triangle p, q, r and for the
\* triangle q, p, s on the other side of its edge p-q, s being r mirrored
\* at the middle of that edge
EdgeInit ==
    /\ \E p \in EdgePoints, q \in EdgePoints, r \in EdgePoints :
         LET s == VSub(VAdd(p, q), r)
         IN  /\ Clockwise(<<p, q, r>>)
             /\ rast_triangle =
                   RasterizerTriangle_new(<<p, q, r>>, UnitDepths, Flat(RED))
             /\ neighbour =
                   RasterizerTriangle_new(<<q, p, s>>, UnitDepths, Flat(GREEN))
             /\ shared_edge = <<XY(p), XY(q)>>
    /\ eval_pixel = <<>>
    /\ eval_prev_mask = 0
    /\ edge_sample = NoEdgeSample
    /\ Rasterizer_new
    /\ NoClipping
    /\ NoCall

\* triangle.edge_functions.eval(x, y)
Eval ==
    /\ \E x \in 0..(WIDTH - 1), y \in 0..(HEIGHT - 1) :
         /\ rast_triangle' =
               [rast_triangle EXCEPT !.edge_functions = eval(@, x, y)]
         /\ eval_pixel' = <<x, y>>
    /\ eval_prev_mask' = rast_triangle.edge_functions.coverage_mask
    /\ UNCHANGED <<neighbour, shared_edge, edge_sample, clip_vars, raster_vars, call_vars>>

\* EdgeFunctions::inside(&normals, &eval_single(x, y)) for both triangles at a
\* point of the shared edge
InsideOnSharedEdge ==
    /\ \E a \in EdgeFractions :
         LET pt == VAdd(shared_edge[1],
                        VScale(a, VSub(shared_edge[2], shared_edge[1])))
             ef_here == rast_triangle.edge_functions
             ef_there == neighbour.edge_functions
         IN  edge_sample' =
               [tested |-> TRUE, point |-> pt,
                here |-> inside(ef_here.normals, eval_single(ef_here, pt[1], pt[2])),
                there |-> inside(ef_there.normals, eval_single(ef_there, pt[1], pt[2]))]
    /\ UNCHANGED <<rast_triangle, neighbour, shared_edge, eval_pixel, eval_prev_mask,
                   clip_vars, raster_vars, call_vars>>

EdgeNext == Eval \/ InsideOnSharedEdge
SpecEdge == EdgeInit /\ [][EdgeNext]_vars

\* ------------------------------------------------------------------------
\* Properties of the edge functions
\* ------------------------------------------------------------------------

\* C9: a point in the interior of the edge that two clockwise triangles share
\* is reported inside by EdgeFunctions::inside for exactly one of them.
SharedEdgeInsideExactlyOne ==
    edge_sample.tested => (edge_sample.here # edge_sample.there)

\* C9 witness: a point of a horizontal shared edge has been tested; it is
\* outside rast_triangle and inside the neighbour.
HorizontalSharedEdgeTested ==
    /\ edge_sample.tested
    /\ shared_edge[1][2] = shared_edge[2][2]
    /\ ~edge_sample.here
    /\ edge_sample.there

\* Edge function k of rast_triangle at sample i of the pixel (x, y)
EdgeValue(k, x, y, i) ==
    LET n == rast_triangle.edge_functions.normals[k]
        p == rast_triangle.edge_functions.points[k]
    IN  RAdd(RMul(n[1], RSub(RAdd(F(x), RGSS_SAMPLE_PATTERN[i][1]), p[1])),
             RMul(n[2], RSub(RAdd(F(y), RGSS_SAMPLE_PATTERN[i][2]), p[2])))
\* Bit i of a mask
BitSet(mask, i) == (mask \div Pow2(i)) % 2 = 1

\* C10: after eval(x, y), bit i of the coverage mask is set iff at sample i
\* of pixel (x, y) every edge k has e_k > 0, or e_k = 0 with normal_k.x > 0,
\* or with normal_k.x = 0 and normal_k.y < 0; whatever was evaluated before.
CoverageMaskRule ==
    eval_pixel # <<>> =>
        \A i \in Samples :
            BitSet(rast_triangle.edge_functions.coverage_mask, i)
              <=> \A k \in 1..3 :
                    LET e == EdgeValue(k, eval_pixel[1], eval_pixel[2], i)
                        n == rast_triangle.edge_functions.normals[k]
                    IN  \/ e[1] > 0
                        \/ /\ e[1] = 0
                           /\ \/ n[1][1] > 0
                              \/ n[1][1] = 0 /\ n[2][1] < 0

\* C10 witness: eval has run on a triangle whose mask was another non-empty
\* one from an earlier pixel, and it has set the bit of a sample that lies
\* exactly on an edge.
TieBreakAfterOtherPixel ==
    /\ eval_pixel # <<>>
    /\ eval_prev_mask # 0
    /\ eval_prev_mask # rast_triangle.edge_functions.coverage_mask
    /\ \E i \in Samples : \E k \in 1..3 :
         /\ BitSet(rast_triangle.edge_functions.coverage_mask, i)
         /\ EdgeValue(k, eval_pixel[1], eval_pixel[2], i) = Zero

\* ------------------------------------------------------------------------
\* Associated functions called on their own
\* ------------------------------------------------------------------------

\* Packed ARGB colours: 0x00000000, 0xFFFFFFFF, CLEAR_COLOR, 0xFFFF0000,
\* 0x80FF0001 and 0x0102FE03
PackedColors ==
    {<<0, 0>>, <<65535, 65535>>, CLEAR_COLOR, <<65535, 0>>, <<33023, 1>>,
     <<258, 65027>>}

\* NDC vertices: x, y and z on a grid that reaches one step past the unit
\* range, w = 1 or 5; and the other two vertices of the triangle
NdcCoords == {F(-1), Q(-1, 2), Zero, Q(1, 2), One, Q(3, 2)}
NdcPoints ==
    {<<x, y, z, w>> : x \in NdcCoords, y \in NdcCoords, z \in NdcCoords, w \in {One, F(5)}}
NdcPairs ==
    {<<<<One, F(-1), One, One>>, <<Zero, One, F(-1), F(2)>>>>,
     <<<<Q(1, 2), Q(-1, 2), Zero, F(3)>>, <<F(-1), F(-1), Q(1, 2), One>>>>}
ViewportSizes == {<<WIDTH, HEIGHT>>, <<400, 500>>}
ViewportCalls ==
    {[fn |-> "viewport_transform", width |-> s[1], height |-> s[2],
      tri |-> [vertices |-> <<v, o[1], o[2]>>, vertex_attributes |-> Flat(RED)]] :
        v \in NdcPoints, o \in NdcPairs, s \in ViewportSizes}

\* Screen-space vertices on the pixel corners, and every triple of them
ScreenPoints == {<<F(x), F(y), Q(1, 2)>> : x \in 0..WIDTH, y \in 0..HEIGHT}
SetupCalls ==
    {[fn |-> "RasterizerTriangle::new", vertices |-> <<a, b, c>>,
      depths_camera_space |-> <<One, F(2), F(3)>>, attributes |-> Flat(RED)] :
        a \in ScreenPoints, b \in ScreenPoints, c \in ScreenPoints}

\* Triangles on the pixel corners with the depths 1/4, 1/2 and 3/4, the camera-space depths 1, 2 and 3 and three different
\* attributes; and one of the three vertices
InterpolateCalls ==
    {[fn |-> "Fragment::interpolate",
      vertices |-> <<<<a[1], a[2], Q(1, 4)>>, <<b[1], b[2], Q(1, 2)>>,
                     <<c[1], c[2], Q(3, 4)>>>>,
      depths_camera_space |-> <<One, F(2), F(3)>>,
      attributes |-> <<RED, GREEN, BLUE>>, k |-> k] :
        a \in ScreenPoints, b \in ScreenPoints, c \in ScreenPoints, k \in 1..3}

\* Screen points for eval: the sample positions of pixel (0, 0), three
\* corners of the screen, and (5/4, 1/4), which is in line with the corner
\* (0, 0) and sample 0
EvalPoints ==
    {<<RGSS_SAMPLE_PATTERN[i][1], RGSS_SAMPLE_PATTERN[i][2], Q(1, 2)>> : i \in Samples}
    \cup {<<F(0), F(0), Q(1, 2)>>, <<F(0), F(HEIGHT), Q(1, 2)>>,
           <<F(WIDTH), F(HEIGHT), Q(1, 2)>>, <<Q(5, 4), Q(1, 4), Q(1, 2)>>}
\* Triangles of either winding on these points, and a pixel of the screen
EvalCalls ==
    {[fn |-> "EdgeFunctions::eval", vertices |-> <<a, b, c>>,
      depths_camera_space |-> UnitDepths, attributes |-> Flat(RED), x |-> x, y |-> y] :
        a \in EvalPoints, b \in EvalPoints, c \in EvalPoints,
        x \in 0..(WIDTH - 1), y \in 0..(HEIGHT - 1)}

\* Triangles of NDC for the bounding box, on a screen of the model's size
\* and on one of 5 x 3 pixels
BoundingBoxCalls ==
    {[fn |-> "PixelBoundingBox::from", width |-> s[1], height |-> s[2],
      tri |-> [vertices |-> <<v, o[1], o[2]>>, vertex_attributes |-> Flat(RED)]] :
        v \in NdcPoints, o \in NdcPairs, s \in {<<WIDTH, HEIGHT>>, <<5, 3>>}}

CallInit ==
    /\ fn_call \in
          {[fn |-> "box_filter_color", colors |-> c] : c \in [Samples -> PackedColors]}
          \cup ViewportCalls \cup SetupCalls \cup InterpolateCalls \cup EvalCalls
          \cup BoundingBoxCalls
    /\ fn_ret = [done |-> FALSE]
    /\ NoObjects
    /\ Rasterizer_new
    /\ NoClipping
    /\ NoEdgeFunctions

\* ColorBuffer::box_filter_color(&colors)
BoxFilterCall ==
    /\ fn_call.fn = "box_filter_color"
    /\ ~fn_ret.done
    /\ fn_ret' = [done |-> TRUE, value |-> box_filter_color(fn_call.colors)]
    /\ UNCHANGED <<fn_call, object_vars, clip_vars, raster_vars, edge_vars>>

\* rasterizer.viewport_transform(tri) of a width x height rasterizer
ViewportCall ==
    /\ fn_call.fn = "viewport_transform"
    /\ ~fn_ret.done
    /\ fn_ret' = IF \E k \in 1..3 : ~new_vert_ok(fn_call.tri.vertices[k])
                 THEN [done |-> TRUE, error |-> "viewport_transform"]
                 ELSE [done |-> TRUE, error |-> "none",
                       value |-> viewport_transform(fn_call.width, fn_call.height,
                                                    fn_call.tri)]
    /\ UNCHANGED <<fn_call, object_vars, clip_vars, raster_vars, edge_vars>>

\* The array with two of its three elements exchanged
Swapped(a, i, j) == [a EXCEPT ![i] = a[j], ![j] = a[i]]
\* RasterizerTriangle::new(vertices, depths_camera_space, attributes), and
\* the same call with vertices 0 and 1, 1 and 2, 0 and 2 exchanged
SetupCall ==
    /\ fn_call.fn = "RasterizerTriangle::new"
    /\ ~fn_ret.done
    /\ fn_ret' = [done |-> TRUE,
                  value |-> RasterizerTriangle_new(fn_call.vertices,
                                fn_call.depths_camera_space, fn_call.attributes),
                  swapped |->
                      [s \in {<<1, 2>>, <<2, 3>>, <<1, 3>>} |->
                          RasterizerTriangle_new(Swapped(fn_call.vertices, s[1], s[2]),
                              Swapped(fn_call.depths_camera_space, s[1], s[2]),
                              Swapped(fn_call.attributes, s[1], s[2]))]]
    /\ UNCHANGED <<fn_call, object_vars, clip_vars, raster_vars, edge_vars>>

\* The closure interpolate_depth of RasterizerTriangle::fragment and the
\* body of Fragment::interpolate from eval_single on, for the edge function
\* values efs.  A zero area makes inv_2x_area infinite and the weights NaN,
\* which fails the assertion of clamp_bary.
InterpolatedFrom(tri, efs) ==
    IF tri.inv_2x_area[2] = 0 THEN [done |-> TRUE, ok |-> FALSE]
    ELSE [done |-> TRUE,
          ok |-> interpolate_depth_ok(tri, efs) /\ BarycentricsOk(PerspectiveAt(tri, efs)),
          tri |-> tri, efs |-> efs,
          depth |-> interpolate_depth(tri, efs),
          barys |-> PerspectiveAt(tri, efs),
          attr |-> Weighted(tri.attributes, PerspectiveAt(tri, efs))]
InterpolatedAt(tri, x_sample, y_sample) ==
    InterpolatedFrom(tri, eval_single(tri.edge_functions, x_sample, y_sample))
\* RasterizerTriangle::new(vertices, ..), then the depth of fragment() and
\* fragment.interpolate sampled at the screen position of vertex k
InterpolateCall ==
    /\ fn_call.fn = "Fragment::interpolate"
    /\ ~fn_ret.done
    /\ fn_ret' = InterpolatedAt(
                     RasterizerTriangle_new(fn_call.vertices, fn_call.depths_camera_space,
                                            fn_call.attributes),
                     fn_call.vertices[fn_call.k][1], fn_call.vertices[fn_call.k][2])
    /\ UNCHANGED <<fn_call, object_vars, clip_vars, raster_vars, edge_vars>>

\* What eval(x, y) left in the edge functions ef, and the buffer set after
\* the pixel loops of Rasterizer::rasterize for tri on a cleared set
Evaluated(tri, ef) ==
    [done |-> TRUE,
     coverage_mask |-> ef.coverage_mask,
     coverage_evaluated |-> [s \in 1..N_MSAA_SAMPLES |-> ef.coverage_evaluated[s - 1]],
     any_coverage |-> CoverageMask_any(ef.coverage_mask),
     drawn |-> [f \in {"color", "depth", "error"} |->
                   RasterOnScreen([color |-> ClearColorBuffer, depth |-> ClearDepthBuffer,
                                   error |-> "none", log |-> <<>>], WIDTH, tri)[f]]]
EvaluatedAt(tri, x, y) == Evaluated(tri, eval(tri.edge_functions, x, y))
\* let mut tri = RasterizerTriangle::new(vertices, ..);
\* tri.edge_functions.eval(x, y)
EvalCall ==
    /\ fn_call.fn = "EdgeFunctions::eval"
    /\ ~fn_ret.done
    /\ fn_ret' = EvaluatedAt(RasterizerTriangle_new(fn_call.vertices,
                                 fn_call.depths_camera_space, fn_call.attributes),
                             fn_call.x, fn_call.y)
    /\ UNCHANGED <<fn_call, object_vars, clip_vars, raster_vars, edge_vars>>

\* for i in b_box.min_y..b_box.max_y { for j in b_box.min_x..b_box.max_x {
\* the pixels (row, col) the loops of Rasterizer::rasterize visit, each with
\* the index row * self.width + col of depth_coverage and write_pixel
BoxVisited(width, b_box) ==
    {<<i, j, i * width + j>> : i \in b_box.min_y..(b_box.max_y - 1),
                               j \in b_box.min_x..(b_box.max_x - 1)}
BoxChecked(width, bb) ==
    [done |-> TRUE, error |-> IF bb.ok THEN "none" ELSE "bounding_box",
     b_box |-> bb.box, visited |-> IF bb.ok THEN BoxVisited(width, bb.box) ELSE {}]
\* let mut triangle = self.viewport_transform(triangle);
\* let b_box = PixelBoundingBox::from(&triangle.edge_functions.points);
BoundingBoxCall ==
    /\ fn_call.fn = "PixelBoundingBox::from"
    /\ ~fn_ret.done
    /\ fn_ret' = IF \E k \in 1..3 : ~new_vert_ok(fn_call.tri.vertices[k])
                 THEN [done |-> TRUE, error |-> "viewport_transform"]
                 ELSE BoxChecked(fn_call.width,
                          PixelBoundingBox_from(
                              viewport_transform(fn_call.width, fn_call.height,
                                                 fn_call.tri).edge_functions.points))
    /\ UNCHANGED <<fn_call, object_vars, clip_vars, raster_vars, edge_vars>>

CallNext ==
    \/ BoxFilterCall \/ ViewportCall \/ SetupCall \/ InterpolateCall \/ EvalCall
    \/ BoundingBoxCall
SpecCalls == CallInit /\ [][CallNext]_vars

\* The bytes of a packed colour
AlphaByte(c) == c[1] \div 256
RedByte(c) == c[1] % 256
GreenByte(c) == c[2] \div 256
BlueByte(c) == c[2] % 256
\* floor of the mean of four bytes
Mean4(b) == (b[0] + b[1] + b[2] + b[3]) \div 4

\* C12: box_filter_color returns alpha 0xFF and, in the red, green and blue
\* bytes, the floor of the mean of that channel over the four samples,
\* whatever the alpha bytes of the samples; four identical opaque colours
\* resolve to that colour.
BoxFilterIsChannelMean ==
    (fn_call.fn = "box_filter_color" /\ fn_ret.done) =>
        LET c == fn_call.colors
            r == fn_ret.value
        IN  /\ r[1] \in 0..65535 /\ r[2] \in 0..65535
            /\ AlphaByte(r) = 255
            /\ RedByte(r) = Mean4([i \in Samples |-> RedByte(c[i])])
            /\ GreenByte(r) = Mean4([i \in Samples |-> GreenByte(c[i])])
            /\ BlueByte(r) = Mean4([i \in Samples |-> BlueByte(c[i])])
            /\ ((\A i \in Samples : c[i] = c[0]) /\ AlphaByte(c[0]) = 255) => r = c[0]

\* C12 witness: box_filter_color has returned for four samples with
\* different alpha bytes whose red sum is not a multiple of four and above
\* 255.
BoxFilterOfMixedAlpha ==
    /\ fn_call.fn = "box_filter_color"
    /\ fn_ret.done
    /\ \E i \in Samples : AlphaByte(fn_call.colors[i]) # AlphaByte(fn_call.colors[0])
    /\ LET sum == RedByte(fn_call.colors[0]) + RedByte(fn_call.colors[1])
                  + RedByte(fn_call.colors[2]) + RedByte(fn_call.colors[3])
       IN  sum > 255 /\ sum % 4 # 0

\* ------------------------------------------------------------------------
\* Properties of the two buffer sets
\* ------------------------------------------------------------------------

\* C13: buf_idx is 0 or 1 and every swap_buffers toggles it; the image that
\* swap_buffers returns is held in the buffer set whose index differs from
\* buf_idx, not in the set the following rasterize calls draw into.
PresentedSetIsNotDrawnInto ==
    /\ buf_idx \in {0, 1}
    /\ buf_idx = (frame - 1) % 2
    /\ last_call.op = "swap_buffers" =>
         /\ color_buffers[last_call.set].resolve_buffer = presented
         /\ last_call.set # buf_idx

\* ------------------------------------------------------------------------
\* Properties of the triangle setup in Rasterizer::rasterize
\* ------------------------------------------------------------------------

\* C14: every triangle of a rasterize call that is not culled, and so
\* reaches viewport_transform, has w > 0 and -w <= x, y, z <= w at its three
\* vertices, and the assertions of viewport_transform do not fail.
SetupOnlyInsideVolume ==
    /\ raster_error # "viewport_transform"
    /\ \A k \in DOMAIN last_call.triangles :
          ~can_cull(last_call.triangles[k].vertices) =>
              \A i \in 1..3 :
                  /\ RGt(last_call.triangles[k].vertices[i][4], Zero)
                  /\ WithinVolume(last_call.triangles[k].vertices[i])

\* C15: for every triangle of a rasterize call with all w > 0 that is not
\* culled, the 2x area of the screen-space triangle, the divisor of
\* inv_2x_area in RasterizerTriangle::new, is at least 0.000001 in absolute
\* value.
SetupAreaIsNotZero ==
    \A k \in DOMAIN last_call.triangles :
        LET t == last_call.triangles[k]
        IN  (/\ \A i \in 1..3 : RGt(t.vertices[i][4], Zero)
             /\ ~can_cull(t.vertices))
            => ~BelowAreaEps(triangle_2x_area(
                    [i \in 1..3 |->
                        new_vert(WIDTH, HEIGHT, perspective_divide(t).vertices[i])]))

\* ------------------------------------------------------------------------
\* Properties of the pixel loop of Rasterizer::rasterize
\* ------------------------------------------------------------------------

\* C11: in every pass of the pixel loop, a pixel whose coverage mask is empty
\* or whose mask is empty after the depth test gets no fragment shader call
\* and no sample of the buffer set changes; with a non-empty surviving mask
\* the samples of that pixel whose bit is set hold the shaded colour and the
\* sampled depth, and every other sample of every pixel is as before.
PixelWritesFollowMask ==
    \A k \in DOMAIN last_call.log :
        LET e == last_call.log[k]
        IN  /\ (e.mask = 0 \/ e.cov_mask = 0) =>
                /\ e.col = <<>>
                /\ e.color_after = e.color_before
                /\ e.depth_after = e.depth_before
            /\ e.cov_mask # 0 =>
                /\ e.col # <<>>
                /\ \A idx \in Pixels : \A i \in Samples :
                     IF idx = e.idx /\ BitSet(e.cov_mask, i)
                     THEN e.error = "none" =>
                            /\ e.color_after[idx][i] = to_argb(e.col)
                            /\ e.depth_after[idx][i] = e.depths[i]
                     ELSE /\ e.color_after[idx][i] = e.color_before[idx][i]
                          /\ e.depth_after[idx][i] = e.depth_before[idx][i]

\* C11 witness: one rasterize call has passed a pixel with coverage whose
\* samples all failed the depth test, and a pixel where the depth test left
\* some of the covered samples and these were written over other values.
PartlyAndFullyRejectedPixels ==
    /\ \E k \in DOMAIN last_call.log :
          last_call.log[k].mask # 0 /\ last_call.log[k].cov_mask = 0
    /\ \E k \in DOMAIN last_call.log :
          LET e == last_call.log[k]
          IN  /\ e.cov_mask # 0
              /\ e.cov_mask # e.mask
              /\ e.error = "none"
              /\ \E i \in Samples :
                    /\ BitSet(e.cov_mask, i)
                    /\ e.color_after[e.idx][i] # e.color_before[e.idx][i]
                    /\ e.depth_before[e.idx][i] # CLEAR_DEPTH

\* ------------------------------------------------------------------------
\* Properties of the interpolation weights
\* ------------------------------------------------------------------------

\* 0 <= x <= 1
InUnit(x) == RGe(x, Zero) /\ RLe(x, One)
\* The edge functions of the triangle of a pass at the point where
\* Fragment::interpolate samples, each divided by the camera-space depth
\* that Fragment::interpolate pairs it with: e1 / w0, e2 / w1, e0 / w2
WeightAt(e, k) ==
    RDiv(eval_single(e.tri.edge_functions,
             InterpolationPoint(e.idx % WIDTH, e.idx \div WIDTH, e.cov_mask)[1],
             InterpolationPoint(e.idx % WIDTH, e.idx \div WIDTH, e.cov_mask)[2])[(k % 3) + 1],
         e.tri.depths_camera_space[k])
WeightSum(e) == RAdd(RAdd(WeightAt(e, 1), WeightAt(e, 2)), WeightAt(e, 3))

ExampleNdc == <<F(-1), Q(1, 2), Q(-1, 2), F(5)>>

\* C17: for NDC vertices with x, y and z in [-1, 1], viewport_transform of a
\* width x height rasterizer returns, and its triangle has for every vertex
\* 2 * x_pixel = width * (x + 1), y_pixel + height * (y + 1) / 2 = height and
\* 2 * depth = z + 1; depth is 0 at z = -1 and 1 at z = 1, a smaller z gives
\* a smaller depth, and w is the camera-space depth.  (-1, 0.5, -0.5, 5) in
\* 400 x 500 gives pixel (0, 125), depth 0.25 and camera depth 5.
ViewportFormulas ==
    (/\ fn_call.fn = "viewport_transform"
     /\ fn_ret.done
     /\ \A k \in 1..3 : \A c \in 1..3 :
            RGe(fn_call.tri.vertices[k][c], F(-1)) /\ RLe(fn_call.tri.vertices[k][c], One))
    => /\ fn_ret.error = "none"
       /\ \A k \in 1..3 :
             LET v == fn_call.tri.vertices[k]
                 p == fn_ret.value.edge_functions.points[k]
                 d == fn_ret.value.depths[k]
             IN  /\ RMul(F(2), p[1]) = RMul(F(fn_call.width), RAdd(v[1], One))
                 /\ RAdd(p[2], RDiv(RMul(F(fn_call.height), RAdd(v[2], One)), F(2)))
                       = F(fn_call.height)
                 /\ RMul(F(2), d) = RAdd(v[3], One)
                 /\ (v[3] = F(-1) => d = Zero)
                 /\ (v[3] = One => d = One)
                 /\ fn_ret.value.depths_camera_space[k] = v[4]
                 /\ \A l \in 1..3 :
                       RLt(v[3], fn_call.tri.vertices[l][3])
                       => RLt(d, fn_ret.value.depths[l])
                 /\ (v = ExampleNdc /\ fn_call.width = 400 /\ fn_call.height = 500)
                    => /\ p = <<Zero, F(125)>>
                       /\ d = Q(1, 4)
                       /\ fn_ret.value.depths_camera_space[k] = F(5)

\* C17 witness: viewport_transform has returned for a triangle with the
\* vertex (-1, 0.5, -0.5, 5) in a 400 x 500 rasterizer, and two of its
\* vertices have different z.
ViewportOfExample ==
    /\ fn_call.fn = "viewport_transform"
    /\ fn_ret.done
    /\ fn_ret.error = "none"
    /\ fn_call.width = 400 /\ fn_call.height = 500
    /\ fn_call.tri.vertices[1] = ExampleNdc
    /\ RLt(fn_call.tri.vertices[1][3], fn_call.tri.vertices[2][3])

\* ------------------------------------------------------------------------
\* Properties of RasterizerTriangle::new
\* ------------------------------------------------------------------------

\* Twice the signed area of the triangle, by the surveyor's formula:
\* x0 (y1 - y2) + x1 (y2 - y0) + x2 (y0 - y1).  With y pointing down it is
\* positive for the clockwise winding.
SignedArea2(v) ==
    RAdd(RAdd(RMul(v[1][1], RSub(v[2][2], v[3][2])),
              RMul(v[2][1], RSub(v[3][2], v[1][2]))),
         RMul(v[3][1], RSub(v[1][2], v[2][2])))
\* Each edge normal points to the side of the edge that holds the vertex
\* opposite to it
NormalsPointInside(tri, v) ==
    \A k \in 1..3 :
        RGt(Dot2(tri.edge_functions.normals[k],
                 VSub(XY(v[((k + 1) % 3) + 1]), tri.edge_functions.points[k])), Zero)

\* C18: for three screen-space vertices of non-zero area,
\* RasterizerTriangle::new sets inv_2x_area to 1 / (2 x signed area); it is
\* positive exactly when the winding is clockwise (y down), and exactly
\* when the three edge normals point to the interior; exchanging any two
\* vertices negates it.
SetupAreaSignAndInverse ==
    (/\ fn_call.fn = "RasterizerTriangle::new"
     /\ fn_ret.done
     /\ SignedArea2(fn_call.vertices) # Zero)
    => /\ fn_ret.value.inv_2x_area[2] # 0
       /\ RMul(fn_ret.value.inv_2x_area, SignedArea2(fn_call.vertices)) = One
       /\ RGt(fn_ret.value.inv_2x_area, Zero) <=> RGt(SignedArea2(fn_call.vertices), Zero)
       /\ RGt(fn_ret.value.inv_2x_area, Zero)
             <=> NormalsPointInside(fn_ret.value, fn_call.vertices)
       /\ \A s \in DOMAIN fn_ret.swapped :
             fn_ret.swapped[s].inv_2x_area = RNeg(fn_ret.value.inv_2x_area)

\* C18 witness: RasterizerTriangle::new has returned for a clockwise triangle
\* of area 1 (inv_2x_area = 1/2), and the calls with two vertices exchanged
\* returned a negative inv_2x_area.
SetupOfClockwiseTriangle ==
    /\ fn_call.fn = "RasterizerTriangle::new"
    /\ fn_ret.done
    /\ SignedArea2(fn_call.vertices) = F(2)
    /\ fn_ret.value.inv_2x_area = Q(1, 2)
    /\ \A s \in DOMAIN fn_ret.swapped : RLt(fn_ret.swapped[s].inv_2x_area, Zero)

\* ------------------------------------------------------------------------
\* Properties of the plane loop of try_clip
\* ------------------------------------------------------------------------

\* The set of the six planes
Planes == {CLIP_PLANES[k] : k \in DOMAIN CLIP_PLANES}
\* The vertices of t strictly outside the plane
OutsideOf(t, plane) ==
    {k \in 1..3 : RLt(distance_measure(plane, t.vertices[k]), Zero)}
\* t is not degenerate, has w > 0 everywhere, is strictly inside the five
\* other planes, and has vertices on both sides of the plane and none on it
StraddlesOnly(t, plane) ==
    /\ ~AreaBelowEps(t)
    /\ \A k \in 1..3 : RGt(t.vertices[k][4], Zero)
    /\ \A q \in Planes \ {plane} : \A k \in 1..3 :
           RGt(distance_measure(q, t.vertices[k]), Zero)
    /\ \A k \in 1..3 : distance_measure(plane, t.vertices[k]) # Zero
    /\ OutsideOf(t, plane) # {}
    /\ OutsideOf(t, plane) # 1..3

\* C19: try_clip of a triangle that straddles one plane only, with no vertex
\* on it, returns Clipped with 2 triangles when one vertex is outside the
\* plane and with 1 triangle when two are, and every vertex of the input
\* inside the plane is a vertex of an output triangle.
SinglePlaneClipCounts ==
    \A plane \in Planes :
        (clip_pc = "returned" /\ StraddlesOnly(triangle, plane))
        => /\ clip_result.kind = "Clipped"
           /\ Cardinality(OutsideOf(triangle, plane)) = 1 => Len(clip_result.tris) = 2
           /\ Cardinality(OutsideOf(triangle, plane)) = 2 => Len(clip_result.tris) = 1
           /\ \A k \in (1..3) \ OutsideOf(triangle, plane) :
                 \E n \in DOMAIN clip_result.tris : \E j \in 1..3 :
                     clip_result.tris[n].vertices[j] = triangle.vertices[k]

\* C19 witness: try_clip has returned for (1.5, 0, 0, 2), (2.5, 1, 0, 2),
\* (0.6, 1, 0, 2), which has one vertex beyond RIGHT, with two triangles and
\* a clipped vertex at x = 2 = w.
RightOverlapClipped ==
    /\ clip_pc = "returned"
    /\ triangle.vertices = <<<<Q(3, 2), F(0), F(0), F(2)>>, <<Q(5, 2), F(1), F(0), F(2)>>,
                             <<Q(3, 5), F(1), F(0), F(2)>>>>
    /\ StraddlesOnly(triangle, "RIGHT")
    /\ Len(clip_result.tris) = 2
    /\ \E n \in DOMAIN clip_result.tris : \E j \in 1..3 :
          /\ clip_result.tris[n].vertices[j][1] = F(2)
          /\ clip_result.tris[n].vertices[j][4] = F(2)

\* The boundary coordinate of v for the plane is >= 0
InsideInclusive(plane, v) == RGe(distance_measure(plane, v), Zero)

\* C20: in every plane pass of try_clip, with a vertex counted as inside iff
\* its boundary coordinate for the plane is >= 0, an edge from an inside to
\* an inside vertex pushes the current vertex only, inside to outside pushes
\* one vertex (the intersection), outside to inside pushes the intersection
\* and then the current vertex, and outside to outside pushes nothing.
PlanePassRulesInclusive ==
    clip_pc = "returned" =>
        \A n \in DOMAIN clip_result.trace.edges :
            LET e == clip_result.trace.edges[n]
                prev_in == InsideInclusive(e.plane, e.prev_vert)
                cur_in == InsideInclusive(e.plane, e.cur_vert)
            IN  /\ (prev_in /\ cur_in) => e.pushed = <<e.cur_vert>>
                /\ (prev_in /\ ~cur_in) => Len(e.pushed) = 1
                /\ (~prev_in /\ cur_in) => Len(e.pushed) = 2 /\ e.pushed[2] = e.cur_vert
                /\ (~prev_in /\ ~cur_in) => e.pushed = <<>>

\* ------------------------------------------------------------------------
\* Properties of the triangle list of try_clip
\* ------------------------------------------------------------------------

\* C21: whenever try_clip returns Clipped for the final polygon v[0..n-1]
\* with attributes a[0..n-1], the list has n - 2 triangles, triangle i is
\* (v[0], v[i+1], v[i+2]) with the attributes (a[0], a[i+1], a[i+2]), and
\* n <= 9, so that the list holds at most 7 triangles.
ClippedIsFanOfPolygon ==
    (clip_pc = "returned" /\ clip_result.kind = "Clipped") =>
        LET v == clip_result.trace.polygon
            a == clip_result.trace.polygon_attrs
            n == Len(v)
        IN  /\ Len(a) = n
            /\ n >= 3 /\ n <= 9
            /\ Len(clip_result.tris) = n - 2
            /\ Len(clip_result.tris) <= 7
            /\ \A i \in 0..(n - 3) :
                  /\ clip_result.tris[i + 1].vertices = <<v[1], v[i + 2], v[i + 3]>>
                  /\ clip_result.tris[i + 1].vertex_attributes = <<a[1], a[i + 2], a[i + 3]>>

\* C21 witness: try_clip has returned Clipped for a polygon of at least five
\* different vertices, so that the second and third triangle of the list
\* differ from a strip.
FanOfPentagon ==
    /\ clip_pc = "returned"
    /\ clip_result.kind = "Clipped"
    /\ Len(clip_result.trace.polygon) >= 5
    /\ \A i, j \in 1..5 :
          i # j => clip_result.trace.polygon[i] # clip_result.trace.polygon[j]

\* ------------------------------------------------------------------------
\* Properties of the start of a frame
\* ------------------------------------------------------------------------

\* C22: after Rasterizer::new and after every swap_buffers call, every
\* sample of the colour buffer at index buf_idx holds CLEAR_COLOR and every
\* sample of the depth buffer at index buf_idx holds CLEAR_DEPTH.
FrameStartsCleared ==
    last_call.op \in {"new", "swap_buffers"} =>
        \A idx \in Pixels : \A i \in Samples :
            /\ color_buffers[buf_idx].buffer[idx][i] = CLEAR_COLOR
            /\ depth_buffers[buf_idx].buffer[idx][i] = CLEAR_DEPTH

\* C22 witness: swap_buffers has returned in the third frame or later, and
\* the set at buf_idx, which it resolved and cleared, held samples that a
\* rasterize call of an earlier frame had drawn (the resolve is not the
\* resolve of a cleared buffer).
ClearedSetHadBeenDrawnInto ==
    /\ last_call.op = "swap_buffers"
    /\ frame >= 3
    /\ last_call.set = buf_idx
    /\ \E idx \in Pixels : presented[idx] # CLEAR_COLOR

\* ------------------------------------------------------------------------
\* Properties of the interpolation at a vertex
\* ------------------------------------------------------------------------

\* 1 for vertex k and 0 for the other two
UnitWeights(k) == [j \in 1..3 |-> IF j = k THEN One ELSE Zero]

\* C23: at the screen position of vertex k of a clockwise triangle of
\* non-zero area with positive camera-space depths, the linear weights
\* e1 / 2A, e2 / 2A, 1 - e1 / 2A - e2 / 2A and the perspective weights of
\* Fragment::interpolate are 1 for vertex k and 0 for the other two; the
\* interpolated depth is depths[k] and the interpolated attribute is
\* attributes[k].
VertexValuesReproduced ==
    (/\ fn_call.fn = "Fragment::interpolate"
     /\ fn_ret.done
     /\ RGt(SignedArea2(fn_call.vertices), Zero))
    => /\ fn_ret.ok
       /\ LET inv == fn_ret.tri.inv_2x_area
               b0 == RMul(fn_ret.efs[2], inv)
               b1 == RMul(fn_ret.efs[3], inv)
           IN  <<b0, b1, RSub(RSub(One, b0), b1)>> = UnitWeights(fn_call.k)
       /\ <<fn_ret.barys.raw_u, fn_ret.barys.raw_v, fn_ret.barys.raw_w>>
             = UnitWeights(fn_call.k)
       /\ fn_ret.depth = fn_call.vertices[fn_call.k][3]
       /\ fn_ret.attr = fn_call.attributes[fn_call.k]

\* C23 witness: the depth and the attribute have been interpolated at the
\* position of the third vertex of a clockwise triangle of area 1.
InterpolatedAtThirdVertex ==
    /\ fn_call.fn = "Fragment::interpolate"
    /\ fn_ret.done
    /\ fn_call.k = 3
    /\ SignedArea2(fn_call.vertices) = F(2)
    /\ fn_ret.ok
    /\ fn_ret.depth = Q(3, 4)

\* ------------------------------------------------------------------------
\* A CoverageMask on its own
\* ------------------------------------------------------------------------

\* let mut mask = CoverageMask::new();
MaskInit ==
    /\ mask_state = [mask |-> CoverageMask_new, prev |-> CoverageMask_new, op |-> <<>>,
                     last |-> <<FALSE, FALSE, FALSE, FALSE>>]
    /\ buffer_tiles = <<>>
    /\ single = <<>>
    /\ fn_call = [fn |-> "none"]
    /\ fn_ret = [done |-> FALSE]
    /\ Rasterizer_new
    /\ NoClipping
    /\ NoEdgeFunctions

\* mask.set(i, v), with i < N_MSAA_SAMPLES
MaskSet ==
    /\ \E i \in Samples : \E v \in BOOLEAN :
          mask_state' = [mask |-> CoverageMask_set(mask_state.mask, i, v),
                         prev |-> mask_state.mask,
                         op |-> <<i, v>>,
                         last |-> [mask_state.last EXCEPT ![i + 1] = v]]
    /\ UNCHANGED <<fn_call, fn_ret, buffer_tiles, single, clip_vars, raster_vars, edge_vars>>

MaskNext == MaskSet
SpecMask == MaskInit /\ [][MaskNext]_vars

\* C24: after new() and any sequence of set(i, v) calls with i < 4, get(i)
\* is the last value set for bit i (false if never set), the last set left
\* every other bit as it was, the mask is below 16, any() holds iff some bit
\* is set, empty() is the negation of any(), and all() holds iff all four
\* bits are set.
CoverageMaskKeepsLastSet ==
    mask_state # <<>> =>
        /\ mask_state.mask \in 0..15
        /\ \A i \in Samples :
              /\ CoverageMask_get(mask_state.mask, i) = mask_state.last[i + 1]
              /\ BitSet(mask_state.mask, i) = mask_state.last[i + 1]
        /\ mask_state.op # <<>> =>
              \A j \in Samples \ {mask_state.op[1]} :
                  CoverageMask_get(mask_state.mask, j) = CoverageMask_get(mask_state.prev, j)
        /\ CoverageMask_any(mask_state.mask) <=> \E i \in Samples : mask_state.last[i + 1]
        /\ CoverageMask_empty(mask_state.mask) <=> ~CoverageMask_any(mask_state.mask)
        /\ CoverageMask_all(mask_state.mask) <=> \A i \in Samples : mask_state.last[i + 1]

\* C24 witness: set(2, false) has cleared bit 2 of a mask with all four bits
\* set.
ClearedOneBitOfFullMask ==
    /\ mask_state # <<>>
    /\ mask_state.op = <<2, FALSE>>
    /\ mask_state.prev = 15
    /\ mask_state.mask = 11

\* ------------------------------------------------------------------------
\* A BufferTiles on its own
\* ------------------------------------------------------------------------

\* A buffer of two by two tiles, the right column and the bottom row cut off
TilesWidth == TILE_SIZE + 36
TilesHeight == TILE_SIZE + 6
\* Pixels (row, col) of the buffer: two in the first tile, the first pixel of
\* each other tile, and the last pixel of the buffer
MarkPixels ==
    {<<0, 0>>, <<TILE_SIZE - 1, TILE_SIZE - 1>>, <<0, TILE_SIZE>>, <<TILE_SIZE, 0>>,
     <<TILE_SIZE, TILE_SIZE>>, <<TilesHeight - 1, TilesWidth - 1>>}

\* let mut tiles = BufferTiles::new(TilesWidth, TilesHeight);
\* marks and prev_marks are the pixels given to mark since the last next()
\* and between the two last next(); ops the last two calls; before what
\* marked() yielded before the last call.
TilesInit ==
    /\ buffer_tiles = [bt |-> BufferTiles_new(TilesWidth, TilesHeight),
                       marks |-> {}, prev_marks |-> {}, ops |-> <<"new", "new">>,
                       before |-> {}]
    /\ mask_state = <<>>
    /\ single = <<>>
    /\ fn_call = [fn |-> "none"]
    /\ fn_ret = [done |-> FALSE]
    /\ Rasterizer_new
    /\ NoClipping
    /\ NoEdgeFunctions

\* tiles.mark(row, col)
TilesMark ==
    /\ ~buffer_tiles.bt.panicked
    /\ \E p \in MarkPixels :
          buffer_tiles' = [bt |-> mark(buffer_tiles.bt, p[1], p[2]),
                           marks |-> buffer_tiles.marks \cup {p},
                           prev_marks |-> buffer_tiles.prev_marks,
                           ops |-> <<buffer_tiles.ops[2], "mark">>,
                           before |-> marked(buffer_tiles.bt)]
    /\ UNCHANGED <<fn_call, fn_ret, mask_state, single, clip_vars, raster_vars, edge_vars>>

\* tiles.next()
TilesNext ==
    /\ ~buffer_tiles.bt.panicked
    /\ buffer_tiles' = [bt |-> next(buffer_tiles.bt),
                        marks |-> {},
                        prev_marks |-> buffer_tiles.marks,
                        ops |-> <<buffer_tiles.ops[2], "next">>,
                        before |-> marked(buffer_tiles.bt)]
    /\ UNCHANGED <<fn_call, fn_ret, mask_state, single, clip_vars, raster_vars, edge_vars>>

TilesStep == TilesMark \/ TilesNext
SpecTiles == TilesInit /\ [][TilesStep]_vars

\* The tile of the buffer that holds the pixel (row, col)
TileHolding(bt, p) ==
    CHOOSE t \in {bt.tiles[k] : k \in DOMAIN bt.tiles} :
        /\ t.min_y <= p[1] /\ p[1] < t.max_y
        /\ t.min_x <= p[2] /\ p[2] < t.max_x

\* C25: after any sequence of mark and next calls, marked() yields exactly
\* the tiles of the pixels marked since the most recent next() (or since
\* new()) and prev_marked() exactly the tiles of the pixels marked between
\* the two most recent next() calls; right after next() marked() is empty
\* and prev_marked() is what marked() was before, and after two next() in a
\* row both are empty.
TilesFollowMarks ==
    buffer_tiles # <<>> =>
        /\ ~buffer_tiles.bt.panicked
        /\ marked(buffer_tiles.bt)
              = {TileHolding(buffer_tiles.bt, p) : p \in buffer_tiles.marks}
        /\ prev_marked(buffer_tiles.bt)
              = {TileHolding(buffer_tiles.bt, p) : p \in buffer_tiles.prev_marks}
        /\ buffer_tiles.ops[2] = "next" =>
              /\ marked(buffer_tiles.bt) = {}
              /\ prev_marked(buffer_tiles.bt) = buffer_tiles.before
        /\ buffer_tiles.ops = <<"next", "next">> =>
              /\ marked(buffer_tiles.bt) = {}
              /\ prev_marked(buffer_tiles.bt) = {}

\* C25 witness: next() has been called after marks in three tiles, the last
\* pixel of the buffer among them, which were made after an earlier next().
NextAfterThreeTiles ==
    /\ buffer_tiles # <<>>
    /\ buffer_tiles.ops[2] = "next"
    /\ <<TilesHeight - 1, TilesWidth - 1>> \in buffer_tiles.prev_marks
    /\ Cardinality(prev_marked(buffer_tiles.bt)) = 3
    /\ Cardinality(buffer_tiles.prev_marks) = 4

\* ------------------------------------------------------------------------
\* Order of the triangles of a frame
\* ------------------------------------------------------------------------

\* Orders of n triangles, as functions from the place to the index in the
\* list: every permutation for up to four triangles; for more the reverse,
\* the exchanges of two neighbours and the rotations.
OrdersOfAll(n) == {f \in [1..n -> 1..n] : \A i, j \in 1..n : i # j => f[i] # f[j]}
Orders(n) ==
    IF n <= 4 THEN OrdersOfAll(n)
    ELSE {[k \in 1..n |-> n + 1 - k]}
         \cup {[k \in 1..n |-> IF k = m THEN m + 1 ELSE IF k = m + 1 THEN m ELSE k] :
                   m \in 1..(n - 1)}
         \cup {[k \in 1..n |-> ((k + m - 1) % n) + 1] : m \in 1..(n - 1)}
\* The buffer set after one rasterize call on a cleared set with the
\* triangles in the given order
FrameInOrder(triangles, order) ==
    rasterize([color |-> ClearColorBuffer, depth |-> ClearDepthBuffer,
               error |-> "none", log |-> <<>>],
              WIDTH, HEIGHT, [k \in 1..Len(triangles) |-> triangles[order[k]]])

\* C26: within a frame the depth buffer does not depend on the order of the
\* triangles nor on their split into rasterize calls: one rasterize call on
\* a cleared buffer set with the frame's triangles in any other order
\* leaves the depth samples that the frame's calls have left.
DepthIsOrderIndependent ==
    raster_error = "none" =>
        \A order \in Orders(Len(frame_triangles)) :
            LET st == FrameInOrder(frame_triangles, order)
            IN  st.error = "none" /\ st.depth = BackDepth

\* C26 witness: the frame was drawn by two rasterize calls with triangles
\* that overlap, each nearer than the other at some sample, and in the
\* reverse order the colours of the frame would differ.
OrderChangesColorOnly ==
    /\ raster_error = "none"
    /\ last_call.op = "rasterize"
    /\ Len(frame_triangles) > Len(last_call.triangles)
    /\ \E a, b \in DOMAIN frame_triangles : \E idx \in Pixels : \E i, j \in Samples :
          /\ Covers(frame_triangles[a], idx, i) /\ Covers(frame_triangles[b], idx, i)
          /\ Covers(frame_triangles[a], idx, j) /\ Covers(frame_triangles[b], idx, j)
          /\ RLt(DepthOf(frame_triangles[a], idx, i), DepthOf(frame_triangles[b], idx, i))
          /\ RLt(DepthOf(frame_triangles[b], idx, j), DepthOf(frame_triangles[a], idx, j))
    /\ FrameInOrder(frame_triangles,
                    [k \in 1..Len(frame_triangles) |-> Len(frame_triangles) + 1 - k]).color
          # BackColor

\* ------------------------------------------------------------------------
\* Triangles of the reverse winding
\* ------------------------------------------------------------------------

\* C27: for a triangle of negative 2x signed area (the reverse of the
\* clockwise winding), eval(x, y) leaves an empty coverage mask at every
\* pixel, also when a sample lies on an edge or on a vertex, and the pixel
\* loops of rasterize leave the buffers as they were.
ReverseWindingHasNoCoverage ==
    (/\ fn_call.fn = "EdgeFunctions::eval"
     /\ fn_ret.done
     /\ RLt(SignedArea2(fn_call.vertices), Zero))
    => /\ fn_ret.coverage_mask = 0
       /\ ~fn_ret.any_coverage
       /\ fn_ret.drawn.error = "none"
       /\ fn_ret.drawn.color = ClearColorBuffer
       /\ fn_ret.drawn.depth = ClearDepthBuffer

\* C27 witness: eval has run for a triangle of negative area at a pixel of
\* which one sample lies on a vertex (two edge functions zero) and another
\* inside an edge (one zero, the others negative).
ReverseWindingSamplesOnEdgeAndVertex ==
    /\ fn_call.fn = "EdgeFunctions::eval"
    /\ fn_ret.done
    /\ RLt(SignedArea2(fn_call.vertices), Zero)
    /\ \E s, t \in 1..N_MSAA_SAMPLES :
          /\ Cardinality({k \in 1..3 : fn_ret.coverage_evaluated[s][k] = Zero}) = 2
          /\ Cardinality({k \in 1..3 : fn_ret.coverage_evaluated[t][k] = Zero}) = 1
          /\ \A k \in 1..3 : RLe(fn_ret.coverage_evaluated[t][k], Zero)

\* ------------------------------------------------------------------------
\* The pixels of the bounding box
\* ------------------------------------------------------------------------

\* C28: for a triangle whose NDC x and y lie in [-1, 1], the bounding box
\* of its screen-space vertices has max_x <= width and max_y <= height, so
\* every pixel (row, col) that the loops of rasterize visit has
\* row < height and col < width and its index row * width + col is below
\* width * height.
BoundingBoxOnScreen ==
    (/\ fn_call.fn = "PixelBoundingBox::from"
     /\ fn_ret.done
     /\ \A k \in 1..3 : InUnitRange(fn_call.tri.vertices[k][1])
                          /\ InUnitRange(fn_call.tri.vertices[k][2])
     /\ fn_ret.error # "viewport_transform")
    => /\ fn_ret.b_box.max_x <= fn_call.width
       /\ fn_ret.b_box.max_y <= fn_call.height
       /\ \A v \in fn_ret.visited :
             /\ v[1] >= 0 /\ v[1] < fn_call.height
             /\ v[2] >= 0 /\ v[2] < fn_call.width
             /\ v[3] >= 0 /\ v[3] < fn_call.width * fn_call.height

\* C28 witness: the box of a triangle that reaches the right and the bottom
\* border of the screen and has a vertex between two pixel corners; the
\* loops visit the last pixel of the buffer.
BoxReachesLastPixel ==
    /\ fn_call.fn = "PixelBoundingBox::from"
    /\ fn_ret.done
    /\ fn_ret.error = "none"
    /\ fn_ret.b_box.max_x = fn_call.width
    /\ fn_ret.b_box.max_y = fn_call.height
    /\ \E k \in 1..3 :
          new_vert(fn_call.width, fn_call.height, fn_call.tri.vertices[k])[1][2] # 1
    /\ <<fn_call.height - 1, fn_call.width - 1, fn_call.width * fn_call.height - 1>>
          \in fn_ret.visited
    /\ Cardinality(fn_ret.visited) > 4

\* ------------------------------------------------------------------------
\* The rasterizer with one sample per pixel (rasterizer.rs) driven by a
\* render loop
\* ------------------------------------------------------------------------

\* Widths and heights of the screen: 1..MaxSide
MaxSide == 3
SingleSizes == {<<w, h>> : w \in 1..MaxSide, h \in 1..MaxSide}
SingleSlices ==
    {<<TriNear>>, <<TriSlanted, TriSame>>, <<TriBehind, TriPerspective, TriBack>>}

\* Before Rasterizer::new(width, height).  pc is "start", then "ready", or
\* "panicked" once a call has panicked; last is the last call, with the
\* passes of its pixel loops.
SingleInit ==
    /\ \E s \in SingleSizes :
          single = [pc |-> "start", width |-> s[1], height |-> s[2],
                    color_buffers |-> <<>>, depth_buffers |-> <<>>, buf_idx |-> 0,
                    error |-> "none", ops |-> 0,
                    last |-> [op |-> "none", triangles |-> <<>>, log |-> <<>>]]
    /\ mask_state = <<>>
    /\ buffer_tiles = <<>>
    /\ fn_call = [fn |-> "none"]
    /\ fn_ret = [done |-> FALSE]
    /\ Rasterizer_new
    /\ NoClipping
    /\ NoEdgeFunctions

\* let mut rasterizer = Rasterizer::new(width, height);
SingleConstructed(r, cb, db) ==
    IF cb.panicked
    THEN [r EXCEPT !.pc = "panicked", !.error = "index", !.last.op = "new"]
    ELSE [r EXCEPT !.pc = "ready", !.color_buffers = <<cb.buffer, cb.buffer>>,
                   !.depth_buffers = <<db, db>>, !.last.op = "new"]
SingleNew ==
    /\ single.pc = "start"
    /\ single' = SingleConstructed(single,
                      SingleColorBuffer_new(single.width, single.height),
                      SingleDepthBuffer_new(single.width, single.height))
    /\ UNCHANGED <<fn_call, fn_ret, mask_state, buffer_tiles, clip_vars, raster_vars,
                   edge_vars>>

\* rasterizer.rasterize(&triangles, &uniforms, fragment_shader)
SingleDrawn(r, triangles, st) ==
    [r EXCEPT !.color_buffers[r.buf_idx + 1] = st.color,
              !.depth_buffers[r.buf_idx + 1] = st.depth,
              !.pc = IF st.error = "none" THEN "ready" ELSE "panicked",
              !.error = st.error,
              !.ops = r.ops + 1,
              !.last = [op |-> "rasterize", triangles |-> triangles, log |-> st.log]]
SingleRasterize ==
    /\ single.pc = "ready"
    /\ single.ops < MaxOps
    /\ \E triangles \in SingleSlices :
          single' = SingleDrawn(single, triangles,
                        Single_rasterize([color |-> single.color_buffers[single.buf_idx + 1],
                                          depth |-> single.depth_buffers[single.buf_idx + 1],
                                          error |-> "none", log |-> <<>>],
                                         single.width, single.height, triangles))
    /\ UNCHANGED <<fn_call, fn_ret, mask_state, buffer_tiles, clip_vars, raster_vars,
                   edge_vars>>

\* let pixels = rasterizer.swap_buffers();
SingleSwapped(r, idx, cb) ==
    IF cb.panicked
    THEN [r EXCEPT !.buf_idx = idx, !.pc = "panicked", !.error = "index",
                   !.ops = r.ops + 1,
                   !.last = [op |-> "swap_buffers", triangles |-> <<>>, log |-> <<>>]]
    ELSE [r EXCEPT !.buf_idx = idx,
                   !.depth_buffers[idx + 1] = SingleDepthBuffer_clear(@),
                   !.color_buffers[idx + 1] = cb.buffer,
                   !.ops = r.ops + 1,
                   !.last = [op |-> "swap_buffers", triangles |-> <<>>, log |-> <<>>]]
SingleSwapBuffers ==
    /\ single.pc = "ready"
    /\ single.ops < MaxOps
    /\ single' = SingleSwapped(single, (single.buf_idx + 1) % 2,
                      SingleColorBuffer_clear(
                          [buffer |-> single.color_buffers[((single.buf_idx + 1) % 2) + 1],
                           width |-> single.width, height |-> single.height,
                           panicked |-> FALSE]))
    /\ UNCHANGED <<fn_call, fn_ret, mask_state, buffer_tiles, clip_vars, raster_vars,
                   edge_vars>>

SingleNext == SingleNew \/ SingleRasterize \/ SingleSwapBuffers
SpecSingle == SingleInit /\ [][SingleNext]_vars

\* C29: at every pixel (row i, column j) that the loops of rasterize visit,
\* the stepped edge function values the pass works with are the direct
\* evaluation at (j + 1/2, i + 1/2), that is step_x has been applied once
\* for every pixel visited before in the row.
SteppedEdgesAreDirect ==
    single # <<>> =>
        \A n \in DOMAIN single.last.log :
            single.last.log[n].edge_functions.evaluated
              = eval_single(single.last.log[n].edge_functions,
                            RAdd(F(single.last.log[n].j), Q(1, 2)),
                            RAdd(F(single.last.log[n].i), Q(1, 2)))

\* C30: Rasterizer::new returns, and after it every pixel of both colour
\* buffers holds the dark grey of clear; swap_buffers returns, and after it
\* every pixel of the colour buffer it cleared holds it: no call indexes
\* outside a buffer, whatever the width and the height.
ClearSetsEveryPixel ==
    single # <<>> =>
        /\ single.error # "index"
        /\ single.last.op = "new" =>
              \A b \in 1..2 : \A k \in 1..(single.width * single.height) :
                  single.color_buffers[b][k] = to_bgra(DarkGrey)
        /\ single.last.op = "swap_buffers" =>
              \A k \in 1..(single.width * single.height) :
                  single.color_buffers[single.buf_idx + 1][k] = to_bgra(DarkGrey)

====
